---- MODULE Spec2Model ----
(***************************************************************************)
(* Model of the chess rules engine of Chess-Game-Bot (app.js, class        *)
(* ChessGame): FEN codec, legality checker, move applier, attack oracle,   *)
(* move enumerator and the turn/termination flow of a match.               *)
(*                                                                         *)
(* Strings of the program (FEN text, the en-passant target, engine move    *)
(* strings) are modelled as sequences of one-character strings, so that    *)
(* splitting, parsing and formatting are computed and not assumed.         *)
(***************************************************************************)
EXTENDS Integers, Sequences, FiniteSets, TLC

\* ------------------------------------------------------------------ bounds
\* largest number of applied moves (plies) explored in one match
MaxPly == 2

\* ------------------------------------------------------------ basic values
null == "null"

Idx == 0..7

WhitePieces == {"P", "R", "N", "B", "Q", "K"}
BlackPieces == {"p", "r", "n", "b", "q", "k"}
PieceChars == WhitePieces \cup BlackPieces
DigitChars == {"0", "1", "2", "3", "4", "5", "6", "7", "8", "9"}

DigitVal(c) ==
  CASE c = "0" -> 0 [] c = "1" -> 1 [] c = "2" -> 2 [] c = "3" -> 3
    [] c = "4" -> 4 [] c = "5" -> 5 [] c = "6" -> 6 [] c = "7" -> 7
    [] c = "8" -> 8 [] c = "9" -> 9

DigitChar(n) ==
  CASE n = 0 -> "0" [] n = 1 -> "1" [] n = 2 -> "2" [] n = 3 -> "3"
    [] n = 4 -> "4" [] n = 5 -> "5" [] n = 6 -> "6" [] n = 7 -> "7"
    [] n = 8 -> "8" [] n = 9 -> "9"

FileLetters == <<"a", "b", "c", "d", "e", "f", "g", "h">>

\* charCodeAt(0) - 97 for the letters a..h; any other character gives a
\* value outside 0..7 (NaN or another code), modelled as -1
FileOfChar(c) ==
  CASE c = "a" -> 0 [] c = "b" -> 1 [] c = "c" -> 2 [] c = "d" -> 3
    [] c = "e" -> 4 [] c = "f" -> 5 [] c = "g" -> 6 [] c = "h" -> 7
    [] OTHER -> -1

toLowerCase(p) ==
  CASE p = "P" -> "p" [] p = "R" -> "r" [] p = "N" -> "n" [] p = "B" -> "b"
    [] p = "Q" -> "q" [] p = "K" -> "k" [] OTHER -> p

toUpperCase(p) ==
  CASE p = "p" -> "P" [] p = "r" -> "R" [] p = "n" -> "N" [] p = "b" -> "B"
    [] p = "q" -> "Q" [] p = "k" -> "K" [] OTHER -> p

abs(x) == IF x < 0 THEN -x ELSE x
sign(x) == IF x < 0 THEN -1 ELSE IF x > 0 THEN 1 ELSE 0
Max(a, b) == IF a >= b THEN a ELSE b

Other(player) == IF player = "white" THEN "black" ELSE "white"

\* color = /[PRNBQK]/.test(piece) ? 'white' : 'black'
ColorOf(piece) == IF piece \in WhitePieces THEN "white" ELSE "black"

isPieceOwnedByPlayer(piece, player) ==
  IF player = "white" THEN piece \in WhitePieces ELSE piece \in BlackPieces

isSameColor(piece1, piece2) ==
  \/ (piece1 \in WhitePieces /\ piece2 \in WhitePieces)
  \/ (piece1 \in BlackPieces /\ piece2 \in BlackPieces)

pieceValues(p) ==
  CASE p \in {"p", "P"} -> 1 [] p \in {"r", "R"} -> 5 [] p \in {"n", "N"} -> 3
    [] p \in {"b", "B"} -> 3 [] p \in {"q", "Q"} -> 9 [] OTHER -> 0

Sq(r, f) == [rank |-> r, file |-> f]

createEmptyBoard == [r \in Idx |-> [f \in Idx |-> null]]

\* --------------------------------------------------------------- FEN codec
\* text.split(sep) on a sequence of characters
RECURSIVE SplitFrom(_, _, _, _)
SplitFrom(text, sep, i, cur) ==
  IF i > Len(text) THEN <<cur>>
  ELSE IF text[i] = sep THEN <<cur>> \o SplitFrom(text, sep, i + 1, <<>>)
  ELSE SplitFrom(text, sep, i + 1, Append(cur, text[i]))

Split(text, sep) == SplitFrom(text, sep, 1, <<>>)

\* parseInt(text, 10) of a non-empty run of decimal digits
RECURSIVE ParseDigits(_, _, _)
ParseDigits(text, i, acc) ==
  IF i > Len(text) THEN acc
  ELSE ParseDigits(text, i + 1, acc * 10 + DigitVal(text[i]))

parseInt(text) == ParseDigits(text, 1, 0)

\* decimal rendering of a non-negative integer
RECURSIVE NumToChars(_)
NumToChars(n) ==
  IF n < 10 THEN <<DigitChar(n)>>
  ELSE Append(NumToChars(n \div 10), DigitChar(n % 10))

Includes(text, c) == \E i \in 1..Len(text) : text[i] = c

AllIn(text, S) == \A i \in 1..Len(text) : text[i] \in S

algebraicToCoords(algebraic) ==
  [rank |-> IF Len(algebraic) >= 2 /\ algebraic[2] \in DigitChars
            THEN 8 - DigitVal(algebraic[2]) ELSE -1,
   file |-> IF Len(algebraic) >= 1 THEN FileOfChar(algebraic[1]) ELSE -1]

coordsToAlgebraic(coords) ==
  <<FileLetters[coords.file + 1]>> \o NumToChars(8 - coords.rank)

RECURSIVE RowCount(_, _)
RowCount(row, i) ==
  IF i > Len(row) THEN 0
  ELSE (IF row[i] \in DigitChars THEN DigitVal(row[i]) ELSE 1) + RowCount(row, i + 1)

\* /^(-|K?Q?k?q?)$/
CastlingFieldOK(t) ==
  \/ t = <<"-">>
  \/ \E k \in BOOLEAN, q \in BOOLEAN, k2 \in BOOLEAN, q2 \in BOOLEAN :
       t = (IF k THEN <<"K">> ELSE <<>>) \o (IF q THEN <<"Q">> ELSE <<>>)
           \o (IF k2 THEN <<"k">> ELSE <<>>) \o (IF q2 THEN <<"q">> ELSE <<>>)

\* /^(-|[a-h][36])$/ or /^(-|[a-h])$/
EpFieldOK(t) ==
  \/ t = <<"-">>
  \/ Len(t) = 2 /\ FileOfChar(t[1]) \in Idx /\ t[2] \in {"3", "6"}
  \/ Len(t) = 1 /\ FileOfChar(t[1]) \in Idx

validateFEN(fen) ==
  /\ Len(fen) > 0
  /\ LET parts == Split(fen, " ")
     IN /\ Len(parts) >= 4
        /\ LET rows == Split(parts[1], "/")
           IN /\ Len(rows) = 8
              /\ \A k \in 1..8 :
                   /\ AllIn(rows[k], DigitChars \cup PieceChars)
                   /\ RowCount(rows[k], 1) = 8
        /\ parts[2] \in {<<"w">>, <<"b">>}
        /\ CastlingFieldOK(parts[3])
        /\ EpFieldOK(parts[4])
        /\ (Len(parts) >= 5 /\ Len(parts[5]) > 0 => AllIn(parts[5], DigitChars))
        /\ (Len(parts) >= 6 /\ Len(parts[6]) > 0 => AllIn(parts[6], DigitChars))

\* one row of parseFENPlacement: the squares written by the row's characters
RECURSIVE ParseRow(_, _, _, _)
ParseRow(row, i, file, acc) ==
  IF i > Len(row) THEN acc
  ELSE IF row[i] \in DigitChars
       THEN ParseRow(row, i + 1, file + DigitVal(row[i]), acc)
       ELSE ParseRow(row, i + 1, file + 1,
                     IF file \in Idx THEN [acc EXCEPT ![file] = row[i]] ELSE acc)

parseFENPlacement(placement) ==
  LET rows == Split(placement, "/")
  IN [r \in Idx |-> ParseRow(rows[r + 1], 1, 0, [f \in Idx |-> null])]

RECURSIVE RowToFen(_, _, _)
RowToFen(row, f, emptyCount) ==
  IF f > 7 THEN (IF emptyCount > 0 THEN NumToChars(emptyCount) ELSE <<>>)
  ELSE IF row[f] = null THEN RowToFen(row, f + 1, emptyCount + 1)
  ELSE (IF emptyCount > 0 THEN NumToChars(emptyCount) ELSE <<>>)
       \o <<row[f]>> \o RowToFen(row, f + 1, 0)

RECURSIVE JoinRows(_, _)
JoinRows(b, r) ==
  IF r = 7 THEN RowToFen(b[r], 0, 0)
  ELSE RowToFen(b[r], 0, 0) \o <<"/">> \o JoinRows(b, r + 1)

boardToPlacement(b) == JoinRows(b, 0)

\* the text syncFENFromState stores in currentFEN
EncodeFEN(s) ==
  LET placement == boardToPlacement(s.board)
      side == IF s.currentPlayer = "white" THEN <<"w">> ELSE <<"b">>
      cs == (IF s.castlingRights.K THEN <<"K">> ELSE <<>>)
            \o (IF s.castlingRights.Q THEN <<"Q">> ELSE <<>>)
            \o (IF s.castlingRights.k THEN <<"k">> ELSE <<>>)
            \o (IF s.castlingRights.q THEN <<"q">> ELSE <<>>)
      c == IF cs = <<>> THEN <<"-">> ELSE cs
      ep == IF s.enPassantTarget = <<>> THEN <<"-">> ELSE s.enPassantTarget
      half == Max(0, s.halfmoveClock)
      full == Max(1, s.fullmoveNumber)
  IN placement \o <<" ">> \o side \o <<" ">> \o c \o <<" ">> \o ep
       \o <<" ">> \o NumToChars(half) \o <<" ">> \o NumToChars(full)

syncFENFromState(s) == [s EXCEPT !.currentFEN = EncodeFEN(s)]

setPositionFromFEN(s, fen) ==
  LET parts == Split(fen, " ")
      ep == parts[4]
      half == IF Len(parts) >= 5 /\ Len(parts[5]) > 0 THEN parts[5] ELSE <<"0">>
      full == IF Len(parts) >= 6 /\ Len(parts[6]) > 0 THEN parts[6] ELSE <<"1">>
  IN [s EXCEPT !.currentFEN = fen,
               !.board = parseFENPlacement(parts[1]),
               !.currentPlayer = IF parts[2] = <<"w">> THEN "white" ELSE "black",
               !.castlingRights = [K |-> Includes(parts[3], "K"),
                                   Q |-> Includes(parts[3], "Q"),
                                   k |-> Includes(parts[3], "k"),
                                   q |-> Includes(parts[3], "q")],
               !.enPassantTarget = IF ep = <<>> THEN <<"-">> ELSE ep,
               !.halfmoveClock = parseInt(half),
               !.fullmoveNumber = parseInt(full)]

\* ------------------------------------------------- snapshot and move applier
snapshotState(s) ==
  [board |-> s.board,
   castlingRights |-> s.castlingRights,
   enPassantTarget |-> s.enPassantTarget,
   halfmoveClock |-> s.halfmoveClock,
   fullmoveNumber |-> s.fullmoveNumber,
   currentPlayer |-> s.currentPlayer]

\* a restore that forgets the en-passant target
restoreSnapshotWithoutEp(s, snap) ==
  [s EXCEPT !.board = snap.board,
            !.castlingRights = snap.castlingRights,
            !.halfmoveClock = snap.halfmoveClock,
            !.fullmoveNumber = snap.fullmoveNumber,
            !.currentPlayer = snap.currentPlayer]

\* a restore that leaves the simulated move on the board
restoreSnapshotKeepingBoard(s, snap) ==
  [s EXCEPT !.castlingRights = snap.castlingRights,
            !.enPassantTarget = snap.enPassantTarget,
            !.halfmoveClock = snap.halfmoveClock,
            !.fullmoveNumber = snap.fullmoveNumber,
            !.currentPlayer = snap.currentPlayer]

restoreSnapshot(s, snap) ==
  [s EXCEPT !.board = snap.board,
            !.castlingRights = snap.castlingRights,
            !.enPassantTarget = snap.enPassantTarget,
            !.halfmoveClock = snap.halfmoveClock,
            !.fullmoveNumber = snap.fullmoveNumber,
            !.currentPlayer = snap.currentPlayer]

\* rights recomputed from the move alone, without the rights held before
updateCRFromMove(cr, p, r, f) ==
  IF p = null THEN cr
  ELSE [K |-> ~(p = "K") /\ ~(p = "R" /\ r = 7 /\ f = 7),
        Q |-> ~(p = "K") /\ ~(p = "R" /\ r = 7 /\ f = 0),
        k |-> ~(p = "k") /\ ~(p = "r" /\ r = 0 /\ f = 7),
        q |-> ~(p = "k") /\ ~(p = "r" /\ r = 0 /\ f = 0)]

\* rights that only a king's move or capture clears
updateCRForKingsOnly(cr, p, r, f) ==
  IF p = null THEN cr
  ELSE [K |-> cr.K /\ ~(p = "K"), Q |-> cr.Q /\ ~(p = "K"),
        k |-> cr.k /\ ~(p = "k"), q |-> cr.q /\ ~(p = "k")]

\* rights cleared for the opposite wing of the rook's corner
updateCRWithWingsSwapped(cr, p, r, f) ==
  IF p = null THEN cr
  ELSE [K |-> cr.K /\ ~(p = "K") /\ ~(p = "R" /\ r = 7 /\ f = 0),
        Q |-> cr.Q /\ ~(p = "K") /\ ~(p = "R" /\ r = 7 /\ f = 7),
        k |-> cr.k /\ ~(p = "k") /\ ~(p = "r" /\ r = 0 /\ f = 0),
        q |-> cr.q /\ ~(p = "k") /\ ~(p = "r" /\ r = 0 /\ f = 7)]

\* the closure updateCR(p, r, f) of applyMoveToState
updateCR(cr, p, r, f) ==
  IF p = null THEN cr
  ELSE [K |-> cr.K /\ ~(p = "K") /\ ~(p = "R" /\ r = 7 /\ f = 7),
        Q |-> cr.Q /\ ~(p = "K") /\ ~(p = "R" /\ r = 7 /\ f = 0),
        k |-> cr.k /\ ~(p = "k") /\ ~(p = "r" /\ r = 0 /\ f = 7),
        q |-> cr.q /\ ~(p = "k") /\ ~(p = "r" /\ r = 0 /\ f = 0)]

\* a target on the square the pawn arrives on instead of the skipped one
EpAfterMoveOnArrival(piece, from, to) ==
  IF toLowerCase(piece) = "p" /\ abs(to.rank - from.rank) = 2
  THEN coordsToAlgebraic(to)
  ELSE <<"-">>

\* a target left behind by any piece that moves two ranks
EpAfterMoveOfAnyPiece(piece, from, to) ==
  IF abs(to.rank - from.rank) = 2
  THEN coordsToAlgebraic(Sq((to.rank + from.rank) \div 2, from.file))
  ELSE <<"-">>

\* the en-passant target applyMoveToState leaves behind
EpAfterMove(piece, from, to) ==
  IF toLowerCase(piece) = "p" /\ abs(to.rank - from.rank) = 2
  THEN coordsToAlgebraic(Sq((to.rank + from.rank) \div 2, from.file))
  ELSE <<"-">>

\* a plain relocation: the moving piece alone changes squares
BoardAfterMoveRelocatingOnly(b, move) ==
  [[b EXCEPT ![move.to.rank][move.to.file] = move.piece]
      EXCEPT ![move.from.rank][move.from.file] = null]

\* the board writes of applyMoveToState, in the order of the code
BoardAfterMove(b, move) ==
  LET from == move.from
      to == move.to
      color == ColorOf(move.piece)
      epDir == IF color = "white" THEN 1 ELSE -1
      b1 == IF move.isEnPassant
            THEN [b EXCEPT ![to.rank + epDir][to.file] = null] ELSE b
      kingSide == to.file = 6
      rookFromFile == IF kingSide THEN 7 ELSE 0
      rookToFile == IF kingSide THEN 5 ELSE 3
      rook == b1[from.rank][rookFromFile]
      b2 == IF move.isCastling
            THEN [[b1 EXCEPT ![from.rank][rookFromFile] = null]
                      EXCEPT ![from.rank][rookToFile] = rook]
            ELSE b1
      b3 == [[b2 EXCEPT ![to.rank][to.file] = move.piece]
                 EXCEPT ![from.rank][from.file] = null]
  IN IF move.promotion # null
     THEN [b3 EXCEPT ![to.rank][to.file] = move.promotion] ELSE b3

updateScoreOnCapture(s, attacker, victim) ==
  IF victim = null THEN s
  ELSE [s EXCEPT !.scores[ColorOf(attacker)] = @ + pieceValues(victim)]

\* an applier whose halfmove clock counts every move
applyMoveToStateCountingEveryMove(s, move, simulate) ==
  IF move.piece = null THEN s
  ELSE
    LET piece == move.piece
        s1 == [s EXCEPT
                 !.halfmoveClock = @ + 1,
                 !.board = BoardAfterMove(s.board, move),
                 !.castlingRights =
                    updateCR(updateCR(@, piece, move.from.rank, move.from.file),
                             move.capturedPiece, move.to.rank, move.to.file),
                 !.enPassantTarget = EpAfterMove(piece, move.from, move.to)]
    IN IF simulate THEN s1
       ELSE updateScoreOnCapture(syncFENFromState(s1), piece, move.capturedPiece)

applyMoveToState(s, move, simulate) ==
  IF move.piece = null THEN s
  ELSE
    LET piece == move.piece
        s1 == [s EXCEPT
                 !.halfmoveClock =
                    IF toLowerCase(piece) = "p" \/ move.capturedPiece # null
                       \/ move.isEnPassant
                    THEN 0 ELSE @ + 1,
                 !.board = BoardAfterMove(s.board, move),
                 !.castlingRights =
                    updateCR(updateCR(@, piece, move.from.rank, move.from.file),
                             move.capturedPiece, move.to.rank, move.to.file),
                 !.enPassantTarget = EpAfterMove(piece, move.from, move.to)]
    IN IF simulate THEN s1
       ELSE updateScoreOnCapture(syncFENFromState(s1), piece, move.capturedPiece)

\* ------------------------------------------------------- legality checker
\* Every operation below returns, next to its value, the Position it leaves
\* behind (post), the number of simulate-then-verify steps it executed
\* (sims) and the largest number of snapshots outstanding at once (nest).
Verdict(ok, reason, isEnPassant, isCastling, promotion, post, sims, nest) ==
  [ok |-> ok, reason |-> reason, isEnPassant |-> isEnPassant,
   isCastling |-> isCastling, promotion |-> promotion,
   post |-> post, sims |-> sims, nest |-> nest]

Reject(reason, post, sims, nest) ==
  Verdict(FALSE, reason, FALSE, FALSE, null, post, sims, nest)

\* a path test whose loop stops one square early
pathClearStoppingEarly(b, from, drStep, dfStep, steps) ==
  \A i \in 1..(steps - 2) : b[from.rank + drStep * i][from.file + dfStep * i] = null

pathClear(b, from, drStep, dfStep, steps) ==
  \A i \in 1..(steps - 1) : b[from.rank + drStep * i][from.file + dfStep * i] = null

\* a promotion that takes the caller's letter as it is
PromotionOfAnyLetter(color, to, promotionChar) ==
  LET promoRank == IF color = "white" THEN 0 ELSE 7
      pch == IF promotionChar = null THEN "q" ELSE promotionChar
  IN IF to.rank # promoRank THEN null
     ELSE IF color = "white" THEN toUpperCase(pch) ELSE toLowerCase(pch)

\* a promotion rank that is the eighth rank for both colours
PromotionOfOnEighthRank(color, to, promotionChar) ==
  LET pch == IF promotionChar = null THEN "q" ELSE promotionChar
      cased == IF color = "white" THEN toUpperCase(pch) ELSE toLowerCase(pch)
  IN IF to.rank # 0 THEN null
     ELSE IF cased \in {"q", "r", "b", "n", "Q", "R", "B", "N"} THEN cased
     ELSE IF color = "white" THEN "Q" ELSE "q"

\* promotion piece resolved for a pawn arriving on `to`
PromotionOf(color, to, promotionChar) ==
  LET promoRank == IF color = "white" THEN 0 ELSE 7
      pch == IF promotionChar = null THEN "q" ELSE promotionChar
      cased == IF color = "white" THEN toUpperCase(pch) ELSE toLowerCase(pch)
  IN IF to.rank # promoRank THEN null
     ELSE IF cased \in {"q", "r", "b", "n", "Q", "R", "B", "N"} THEN cased
     ELSE IF color = "white" THEN "Q" ELSE "q"

\* a pawn branch that accepts en passant on any empty diagonal square while
\* a target is set
PawnRuleAnyTarget(s, from, to, color, targetPiece, promotionChar) ==
  LET dr == to.rank - from.rank
      df == to.file - from.file
      dir == IF color = "white" THEN -1 ELSE 1
      startRank == IF color = "white" THEN 6 ELSE 1
      promo == PromotionOf(color, to, promotionChar)
      Pass(isEp) == Verdict(TRUE, "", isEp, FALSE, promo, s, 0, 0)
  IN IF df = 0
     THEN IF dr = dir /\ targetPiece = null THEN Pass(FALSE)
          ELSE IF from.rank = startRank /\ dr = 2 * dir /\ targetPiece = null
               THEN IF s.board[from.rank + dir][from.file] # null
                    THEN Reject("Blocked", s, 0, 0)
                    ELSE Pass(FALSE)
               ELSE Reject("Bad pawn move", s, 0, 0)
     ELSE IF abs(df) = 1 /\ dr = dir
          THEN IF targetPiece # null THEN Pass(FALSE)
               ELSE IF s.enPassantTarget # <<"-">>
                    THEN Pass(TRUE)
                    ELSE Reject("No EP", s, 0, 0)
          ELSE Reject("Bad pawn vector", s, 0, 0)

\* the pawn branch of isLegalMoveWithState
PawnRule(s, from, to, color, targetPiece, promotionChar) ==
  LET dr == to.rank - from.rank
      df == to.file - from.file
      dir == IF color = "white" THEN -1 ELSE 1
      startRank == IF color = "white" THEN 6 ELSE 1
      promo == PromotionOf(color, to, promotionChar)
      Pass(isEp) == Verdict(TRUE, "", isEp, FALSE, promo, s, 0, 0)
  IN IF df = 0
     THEN IF dr = dir /\ targetPiece = null THEN Pass(FALSE)
          ELSE IF from.rank = startRank /\ dr = 2 * dir /\ targetPiece = null
               THEN IF s.board[from.rank + dir][from.file] # null
                    THEN Reject("Blocked", s, 0, 0)
                    ELSE Pass(FALSE)
               ELSE Reject("Bad pawn move", s, 0, 0)
     ELSE IF abs(df) = 1 /\ dr = dir
          THEN IF targetPiece # null THEN Pass(FALSE)
               ELSE IF s.enPassantTarget # <<"-">>
                       /\ algebraicToCoords(s.enPassantTarget) = to
                    THEN Pass(TRUE)
                    ELSE Reject("No EP", s, 0, 0)
          ELSE Reject("Bad pawn vector", s, 0, 0)

\* knight, bishop, rook, queen and the one-step king move
SimpleRule(s, from, to, pieceLower) ==
  LET dr == to.rank - from.rank
      df == to.file - from.file
      Pass == Verdict(TRUE, "", FALSE, FALSE, null, s, 0, 0)
  IN CASE pieceLower = "n" ->
            IF (abs(dr) = 2 /\ abs(df) = 1) \/ (abs(dr) = 1 /\ abs(df) = 2)
            THEN Pass ELSE Reject("Bad knight move", s, 0, 0)
       [] pieceLower = "b" ->
            IF abs(dr) # abs(df) THEN Reject("Bad bishop move", s, 0, 0)
            ELSE IF ~pathClear(s.board, from, sign(dr), sign(df), abs(dr))
                 THEN Reject("Blocked", s, 0, 0) ELSE Pass
       [] pieceLower = "r" ->
            IF ~(dr = 0 \/ df = 0) THEN Reject("Bad rook move", s, 0, 0)
            ELSE IF ~pathClear(s.board, from, sign(dr), sign(df), abs(dr) + abs(df))
                 THEN Reject("Blocked", s, 0, 0) ELSE Pass
       [] pieceLower = "q" ->
            IF ~(abs(dr) = abs(df) \/ dr = 0 \/ df = 0)
            THEN Reject("Bad queen move", s, 0, 0)
            ELSE IF ~pathClear(s.board, from, sign(dr), sign(df),
                               Max(abs(dr), abs(df)))
                 THEN Reject("Blocked", s, 0, 0) ELSE Pass
       [] pieceLower = "k" ->
            IF abs(dr) > 1 \/ abs(df) > 1 THEN Reject("Bad king move", s, 0, 0)
            ELSE Pass
       [] OTHER -> Pass

RECURSIVE isLegalMoveWithState(_, _, _, _, _)
RECURSIVE isSquareAttacked(_, _, _)
RECURSIVE isKingInCheck(_, _)
RECURSIVE generateAllPseudoLegalMoves(_, _, _)
RECURSIVE GenTo(_, _, _, _, _)
RECURSIVE GenFrom(_, _, _, _)
RECURSIVE GenStep(_, _, _, _)

\* the castling branch (a king moving two files on its rank); the three
\* attack tests run one after the other, each on the state the previous one
\* left behind: a1, a2, a3 are their results
CastleInto(a1, a2, a3) ==
  LET sims == a1.sims + a2.sims + a3.sims
      nest == Max(a1.nest, Max(a2.nest, a3.nest))
  IN IF a3.val THEN Reject("Into check", a3.post, sims, nest)
     ELSE Verdict(TRUE, "", FALSE, TRUE, null, a3.post, sims, nest)

CastleThrough(to, color, a1, a2) ==
  IF a2.val
  THEN Reject("Through check", a2.post, a1.sims + a2.sims, Max(a1.nest, a2.nest))
  ELSE CastleInto(a1, a2, isSquareAttacked(a2.post, to, color))

CastleFrom(from, to, color, step, a1) ==
  IF a1.val THEN Reject("King in check", a1.post, a1.sims, a1.nest)
  ELSE CastleThrough(to, color, a1,
         isSquareAttacked(a1.post, Sq(from.rank, from.file + step), color))

CastleRule(s, from, to, color) ==
  LET rights == s.castlingRights
      homeRank == IF color = "white" THEN 7 ELSE 0
      kingSide == to.file = 6
      queenSide == to.file = 2
      canCastle == IF color = "white"
                   THEN (IF kingSide THEN rights.K ELSE rights.Q)
                   ELSE (IF kingSide THEN rights.k ELSE rights.q)
      rookFile == IF kingSide THEN 7 ELSE 0
      step == IF kingSide THEN 1 ELSE -1
      between == IF kingSide THEN (from.file + 1)..(rookFile - 1)
                 ELSE (rookFile + 1)..(from.file - 1)
  IN IF from.rank # homeRank \/ from.file # 4
     THEN Reject("King not on start", s, 0, 0)
     ELSE IF ~kingSide /\ ~queenSide THEN Reject("Bad castle target", s, 0, 0)
     ELSE IF ~canCastle THEN Reject("No castling rights", s, 0, 0)
     ELSE IF \E f \in between : s.board[from.rank][f] # null
          THEN Reject("Path blocked", s, 0, 0)
     ELSE CastleFrom(from, to, color, step, isSquareAttacked(s, from, color))

\* the dispatch on the piece kind (lines between the turn test and the
\* simulate step)
KindRule(s, from, to, piece, color, targetPiece, promotionChar) ==
  LET pieceLower == toLowerCase(piece)
  IN IF pieceLower = "p"
     THEN PawnRule(s, from, to, color, targetPiece, promotionChar)
     ELSE IF pieceLower = "k" /\ to.rank - from.rank = 0
             /\ abs(to.file - from.file) = 2
          THEN CastleRule(s, from, to, color)
          ELSE SimpleRule(s, from, to, pieceLower)

\* the end of the simulate-then-verify step: restore, then decide
\* (snapshot: the copy taken before; stillInCheck: the king test's result)
SimulateVerdict(kind, snapshot, stillInCheck) ==
  LET restored == restoreSnapshot(stillInCheck.post, snapshot)
      sims == kind.sims + 1 + stillInCheck.sims
      nest == Max(kind.nest, 1 + stillInCheck.nest)
  IN IF stillInCheck.val THEN Reject("Leaves king in check", restored, sims, nest)
     ELSE Verdict(TRUE, "", kind.isEnPassant, kind.isCastling, kind.promotion,
                  restored, sims, nest)

\* the simulate-then-verify step: snapshot, simulated apply, king test,
\* restore
SimulateAndVerify(kind, from, to, piece, color, targetPiece) ==
  SimulateVerdict(kind, snapshotState(kind.post),
    isKingInCheck(
      applyMoveToState(kind.post,
        [from |-> from, to |-> to, piece |-> piece,
         capturedPiece |-> targetPiece, promotion |-> kind.promotion,
         isEnPassant |-> kind.isEnPassant, isCastling |-> kind.isCastling],
        TRUE),
      color))

\* what follows the kind-specific rule: its rejection, or the simulate step
AfterKindRule(kind, from, to, piece, color, targetPiece) ==
  IF ~kind.ok THEN kind
  ELSE SimulateAndVerify(kind, from, to, piece, color, targetPiece)

isLegalMoveWithState(s, from, to, piece, promotionChar) ==
  IF piece = null THEN Reject("No piece", s, 0, 0)
  ELSE IF from = to THEN Reject("Same square", s, 0, 0)
  ELSE
    LET targetPiece == s.board[to.rank][to.file]
        color == ColorOf(piece)
    IN IF targetPiece # null /\ isSameColor(piece, targetPiece)
       THEN Reject("Own piece on target", s, 0, 0)
       ELSE IF color # s.currentPlayer THEN Reject("Not turn", s, 0, 0)
       ELSE AfterKindRule(
              KindRule(s, from, to, piece, color, targetPiece, promotionChar),
              from, to, piece, color, targetPiece)

\* ------------------------------------------- attack oracle and enumerator
\* moves.push(...) when the candidate's result res is ok
GenPush(acc, from, to, piece, res) ==
  [moves |-> IF res.ok
             THEN Append(acc.moves,
                    [from |-> from, to |-> to, piece |-> piece,
                     capturedPiece |-> res.post.board[to.rank][to.file],
                     meta |-> [ok |-> TRUE,
                               isEnPassant |-> res.isEnPassant,
                               isCastling |-> res.isCastling,
                               promotion |-> res.promotion]])
             ELSE acc.moves,
   post |-> res.post,
   sims |-> acc.sims + res.sims,
   nest |-> Max(acc.nest, res.nest)]

\* one iteration of the inner loop of generateAllPseudoLegalMoves
GenStep(acc, from, piece, to) ==
  GenPush(acc, from, to, piece,
          isLegalMoveWithState(acc.post, from, to, piece, null))

\* the inner loop over the destination squares lo..hi (row-major order,
\* split in halves so that the evaluation depth stays logarithmic)
GenTo(acc, from, piece, lo, hi) ==
  IF lo = hi THEN GenStep(acc, from, piece, Sq(lo \div 8, lo % 8))
  ELSE LET mid == (lo + hi) \div 2
           first == GenTo(acc, from, piece, lo, mid)
       IN IF first.sims >= 0   \* the first half is complete before the second starts
          THEN GenTo(first, from, piece, mid + 1, hi) ELSE first

\* the outer loop over the origin squares lo..hi (row-major order)
GenFrom(acc, player, lo, hi) ==
  IF lo = hi
  THEN LET piece == acc.post.board[lo \div 8][lo % 8]
       IN IF piece = null \/ ~isPieceOwnedByPlayer(piece, player) THEN acc
          ELSE GenTo(acc, Sq(lo \div 8, lo % 8), piece, 0, 63)
  ELSE LET mid == (lo + hi) \div 2
           first == GenFrom(acc, player, lo, mid)
       IN IF first.sims >= 0   \* the first half is complete before the second starts
          THEN GenFrom(first, player, mid + 1, hi) ELSE first

\* opts.includeKingSafety is read into a local and never consulted
generateAllPseudoLegalMoves(s, player, includeKingSafety) ==
  GenFrom([moves |-> <<>>, post |-> s, sims |-> 0, nest |-> 0], player, 0, 63)

generateAllLegalMoves(s, player) == generateAllPseudoLegalMoves(s, player, TRUE)

\* attacks.some(m => m.to is the square)
AttacksSome(attacks, square) ==
  [val |-> \E i \in 1..Len(attacks.moves) : attacks.moves[i].to = square,
   post |-> attacks.post, sims |-> attacks.sims, nest |-> attacks.nest]

isSquareAttacked(s, square, color) ==
  AttacksSome(
    generateAllPseudoLegalMoves(s, IF color = "white" THEN "black" ELSE "white",
                                FALSE),
    square)

isKingInCheck(s, color) ==
  LET kingPiece == IF color = "white" THEN "K" ELSE "k"
      kings == {i \in 0..63 : s.board[i \div 8][i % 8] = kingPiece}
  IN IF kings = {} THEN [val |-> FALSE, post |-> s, sims |-> 0, nest |-> 0]
     ELSE LET k == CHOOSE i \in kings : \A j \in kings : j <= i
          IN isSquareAttacked(s, Sq(k \div 8, k % 8), color)

\* ------------------------------------------------------ program state
VARIABLES
  board,            \* 8x8 grid, board[rank][file], rank 0 = eighth rank
  currentFEN,       \* FEN text last written by syncFENFromState / a load
  currentPlayer,    \* side to move
  castlingRights,   \* [K, Q, k, q]
  enPassantTarget,  \* "-" or an algebraic square, as text
  halfmoveClock,
  fullmoveNumber,
  scores,           \* [white, black]
  firstMove,        \* configured side that moves first
  playerSide,       \* configured side of the human
  maxMoves,         \* configured move limit per side
  moveCount,        \* [white, black]
  gameActive,
  gameResult,       \* null or [reason, winner, finalScore, totalMoves]
  moveHistory,      \* sequence of move notations
  currentPhase,     \* 0..4
  pendingAI,        \* makeAIMove calls scheduled by setTimeout and not yet run
  stockfish,        \* the PatriciaClient: isThinking, and the getBestMove calls
                    \* suspended at `await setPosition` and at `await go`
  engine,           \* the server's PatriciaEngine: line listeners of the searches,
                    \* go commands the engine process has not answered, results
  last              \* observation of the handler that ran last (not program state)

vars == <<board, currentFEN, currentPlayer, castlingRights, enPassantTarget,
          halfmoveClock, fullmoveNumber, scores, firstMove, playerSide,
          maxMoves, moveCount, gameActive, gameResult, moveHistory,
          currentPhase, pendingAI, stockfish, engine, last>>

\* the ChessGame object as one value
Game ==
  [board |-> board, currentFEN |-> currentFEN, currentPlayer |-> currentPlayer,
   castlingRights |-> castlingRights, enPassantTarget |-> enPassantTarget,
   halfmoveClock |-> halfmoveClock, fullmoveNumber |-> fullmoveNumber,
   scores |-> scores, firstMove |-> firstMove, playerSide |-> playerSide,
   maxMoves |-> maxMoves, moveCount |-> moveCount, gameActive |-> gameActive,
   gameResult |-> gameResult, moveHistory |-> moveHistory,
   currentPhase |-> currentPhase, pendingAI |-> pendingAI,
   stockfish |-> stockfish]

Becomes(s) ==
  /\ board' = s.board
  /\ currentFEN' = s.currentFEN
  /\ currentPlayer' = s.currentPlayer
  /\ castlingRights' = s.castlingRights
  /\ enPassantTarget' = s.enPassantTarget
  /\ halfmoveClock' = s.halfmoveClock
  /\ fullmoveNumber' = s.fullmoveNumber
  /\ scores' = s.scores
  /\ firstMove' = s.firstMove
  /\ playerSide' = s.playerSide
  /\ maxMoves' = s.maxMoves
  /\ moveCount' = s.moveCount
  /\ gameActive' = s.gameActive
  /\ gameResult' = s.gameResult
  /\ moveHistory' = s.moveHistory
  /\ currentPhase' = s.currentPhase
  /\ pendingAI' = s.pendingAI
  /\ stockfish' = s.stockfish
  /\ engine' = engine

\* the fields a query must leave alone: the Position, the scores, the FEN text
FrameOf(s) ==
  [board |-> s.board, currentPlayer |-> s.currentPlayer,
   castlingRights |-> s.castlingRights, enPassantTarget |-> s.enPassantTarget,
   halfmoveClock |-> s.halfmoveClock, fullmoveNumber |-> s.fullmoveNumber,
   scores |-> s.scores, currentFEN |-> s.currentFEN]

StandardFEN ==
  <<"r", "n", "b", "q", "k", "b", "n", "r", "/",
    "p", "p", "p", "p", "p", "p", "p", "p", "/",
    "8", "/", "8", "/", "8", "/", "8", "/",
    "P", "P", "P", "P", "P", "P", "P", "P", "/",
    "R", "N", "B", "Q", "K", "B", "N", "R",
    " ", "w", " ", "K", "Q", "k", "q", " ", "-", " ", "0", " ", "1">>

\* the object the constructor leaves behind
Constructed ==
  [board |-> createEmptyBoard, currentFEN |-> StandardFEN,
   currentPlayer |-> "white",
   castlingRights |-> [K |-> TRUE, Q |-> TRUE, k |-> TRUE, q |-> TRUE],
   enPassantTarget |-> <<"-">>, halfmoveClock |-> 0, fullmoveNumber |-> 1,
   scores |-> [white |-> 0, black |-> 0], firstMove |-> "white",
   playerSide |-> "white", maxMoves |-> 6,
   moveCount |-> [white |-> 0, black |-> 0], gameActive |-> FALSE,
   gameResult |-> null, moveHistory |-> <<>>, currentPhase |-> 0,
   pendingAI |-> 0,
   stockfish |-> [isThinking |-> FALSE, position |-> 0, go |-> 0]]

\* ------------------------------------------------------------ match flow
nextPhase(s) ==
  IF s.currentPhase < 4 THEN [s EXCEPT !.currentPhase = @ + 1] ELSE s

determineWinnerByReason(s, reason) ==
  IF reason = "Checkmate"
  THEN (IF s.currentPlayer = "white" THEN "Black" ELSE "White")
  ELSE IF s.scores.white > s.scores.black THEN "White"
  ELSE IF s.scores.black > s.scores.white THEN "Black"
  ELSE "Draw"

endGame(s, reason) ==
  [s EXCEPT !.gameActive = FALSE,
            !.gameResult = [reason |-> reason,
                            winner |-> determineWinnerByReason(s, reason),
                            finalScore |-> s.scores,
                            totalMoves |-> s.moveCount.white + s.moveCount.black],
            !.currentPhase = 4]

\* the decision of checkGameEndEarly once hasMoves and inCheck are known
EarlyVerdict(playerToMove, hasMoves, inCheck) ==
  [ended |-> ~hasMoves,
   post |-> IF ~hasMoves
            THEN endGame(inCheck.post, IF inCheck.val THEN "Checkmate" ELSE "Stalemate")
            ELSE inCheck.post,
   tested |-> playerToMove, hasMoves |-> hasMoves, inCheck |-> inCheck.val]

\* gen: the result of generateAllLegalMoves(playerToMove)
EarlyInCheck(playerToMove, gen) ==
  EarlyVerdict(playerToMove, Len(gen.moves) > 0,
               isKingInCheck(gen.post, playerToMove))

\* checkGameEndEarly: [ended, post, tested, hasMoves, inCheck]
checkGameEndEarly(s) ==
  EarlyInCheck(s.currentPlayer, generateAllLegalMoves(s, s.currentPlayer))

\* a move-limit test that fires as soon as one side has reached the limit
checkGameEndWhenEitherReached(s) ==
  IF s.moveCount.white >= s.maxMoves \/ s.moveCount.black >= s.maxMoves
  THEN [ended |-> TRUE, post |-> endGame(s, "Move limit reached")]
  ELSE [ended |-> FALSE, post |-> s]

\* checkGameEnd: [ended, post]
checkGameEnd(s) ==
  IF s.moveCount.white >= s.maxMoves /\ s.moveCount.black >= s.maxMoves
  THEN [ended |-> TRUE, post |-> endGame(s, "Move limit reached")]
  ELSE [ended |-> FALSE, post |-> s]

\* a turn change that leaves currentFEN as the applied move wrote it
TurnChangeWithoutSync(s) ==
  LET s2 == [s EXCEPT !.currentPlayer = IF @ = "white" THEN "black" ELSE "white"]
  IN IF s2.currentPlayer = "white"
     THEN [s2 EXCEPT !.fullmoveNumber = @ + 1] ELSE s2

\* the turn change between the two tests: flip the side, count the move
TurnChange(s) ==
  LET s2 == [s EXCEPT !.currentPlayer = IF @ = "white" THEN "black" ELSE "white"]
      s3 == IF s2.currentPlayer = "white"
            THEN [s2 EXCEPT !.fullmoveNumber = @ + 1] ELSE s2
  IN syncFENFromState(s3)

\* what a turn end reports: the early test's result, the tests run, the state
TurnResult(early, tests, post) == [post |-> post, early |-> early, tests |-> tests]

\* early: the result of checkGameEndEarly
AfterEarlyTest(early) ==
  IF early.ended
  THEN TurnResult(early, <<"checkGameEndEarly">>, early.post)
  ELSE TurnResult(early, <<"checkGameEndEarly", "checkGameEnd">>,
                  checkGameEnd(TurnChange(early.post)).post)

\* endPlayerTurn and endAITurn (identical up to the timer that asks the
\* engine for the reply): [post, early, tests]
endTurn(s) ==
  AfterEarlyTest(checkGameEndEarly([s EXCEPT !.moveCount[s.currentPlayer] = @ + 1]))

generateMoveNotation(from, to, piece, capturedPiece, meta) ==
  LET toSquare == <<FileLetters[to.file + 1]>> \o NumToChars(8 - to.rank)
      capture == IF capturedPiece # null \/ meta.isEnPassant THEN <<"x">> ELSE <<"-">>
      p == IF toUpperCase(piece) = "P" THEN <<>> ELSE <<toUpperCase(piece)>>
      promo == IF meta.promotion # null
               THEN <<"=", toUpperCase(meta.promotion)>> ELSE <<>>
  IN IF meta.isCastling
     THEN (IF to.file = 6 THEN <<"O", "-", "O">> ELSE <<"O", "-", "O", "-", "O">>)
     ELSE p \o capture \o toSquare \o promo

recordMove(s, from, to, piece, capturedPiece, meta) ==
  [s EXCEPT !.moveHistory =
              Append(@, generateMoveNotation(from, to, piece, capturedPiece, meta))]

\* turn: the result of endTurn after the move was applied and recorded
Played(turn, capturedPiece) ==
  [post |-> turn.post, early |-> turn.early, tests |-> turn.tests,
   capturedPiece |-> capturedPiece]

\* the part shared by handlePlayDrop and executeAIMove once the legality
\* check has run: apply, record, end the turn
\* (checked: the state the checks left behind)
PlayMove(checked, from, to, piece, capturedPiece, legality) ==
  Played(
    endTurn(
      recordMove(
        applyMoveToState(checked,
          [from |-> from, to |-> to, piece |-> piece,
           capturedPiece |-> capturedPiece,
           promotion |-> legality.promotion,
           isEnPassant |-> legality.isEnPassant,
           isCastling |-> legality.isCastling], FALSE),
        from, to, piece, capturedPiece, legality)),
    capturedPiece)

\* ------------------------------------------------------------- inputs
\* "k7/8/8/8/8/8/7n/4K2R w K - 0 1"
CastleFEN ==
  <<"k", "7", "/", "8", "/", "8", "/", "8", "/", "8", "/", "8", "/", "7",
  "n", "/", "4", "K", "2", "R", " ", "w", " ", "K", " ", "-", " ", "0", " ",
  "1">>

\* "7k/8/8/8/Pp6/8/2P5/7K w - a3 0 1"
PawnFEN ==
  <<"7", "k", "/", "8", "/", "8", "/", "8", "/", "P", "p", "6", "/",
    "8", "/", "2", "P", "5", "/", "7", "K", " ", "w", " ", "-", " ",
    "a", "3", " ", "0", " ", "1">>

\* "KP6/1Pn5/P7/8/8/8/8/7k w - - 0 1"
CornerFEN ==
  <<"K", "P", "6", "/", "1", "P", "n", "5", "/", "P", "7", "/", "8", "/",
  "8", "/", "8", "/", "8", "/", "7", "k", " ", "w", " ", "-", " ", "-", " ",
  "0", " ", "1">>

\* FEN texts typed into the load box
FenInputs == {CastleFEN, PawnFEN, CornerFEN}

Sides == {"white", "black"}
Squares == {Sq(r, f) : r \in Idx, f \in Idx}

\* fifth character of an engine move: none, or a promotion letter
PromoInputs == {<<>>, <<"n">>}

\* number of moves applied in the match so far
Plies == moveCount.white + moveCount.black

\* --------------------------------------------------------- observations
NoSquare == Sq(-1, -1)

Observed(op) ==
  [op |-> op, accepted |-> FALSE, mover |-> null, from |-> NoSquare,
   to |-> NoSquare, piece |-> null, capturedPiece |-> null,
   isEnPassant |-> FALSE, isCastling |-> FALSE, promotion |-> null,
   tested |-> null, hasMoves |-> FALSE, inCheck |-> FALSE, tests |-> <<>>,
   before |-> FrameOf(Constructed), val |-> FALSE, sims |-> 0, nest |-> 0]

ObservedMove(op, s, from, to, piece, legality, played) ==
  [Observed(op) EXCEPT
     !.accepted = TRUE, !.mover = s.currentPlayer, !.from = from, !.to = to,
     !.piece = piece, !.capturedPiece = played.capturedPiece,
     !.isEnPassant = legality.isEnPassant, !.isCastling = legality.isCastling,
     !.promotion = legality.promotion, !.tested = played.early.tested,
     !.hasMoves = played.early.hasMoves, !.inCheck = played.early.inCheck,
     !.tests = played.tests, !.before = FrameOf(s),
     !.sims = legality.sims, !.nest = legality.nest]

\* ------------------------------------------------------------- handlers
\* loadPosition: validate, decode, advance to the editor phase
LoadPosition(fen) ==
  /\ currentPhase = 0
  /\ validateFEN(fen)
  /\ Becomes(nextPhase(setPositionFromFEN(Game, fen)))
  /\ last' = Observed("loadPosition")

\* the Next button, from the editor to the configuration phase
NextPhase ==
  /\ currentPhase = 1
  /\ Becomes(nextPhase(Game))
  /\ last' = Observed("nextPhase")

\* the playerSide and firstMove radio buttons of the configuration phase
SetPlayerSide(v) ==
  /\ currentPhase = 2
  /\ playerSide # v
  /\ Becomes([Game EXCEPT !.playerSide = v])
  /\ last' = Observed("playerSide")

SetFirstMove(v) ==
  /\ currentPhase = 2
  /\ firstMove # v
  /\ Becomes([Game EXCEPT !.firstMove = v])
  /\ last' = Observed("firstMove")

\* the moveLimit input: Math.max(1, Math.min(20, parseInt(value) || 6))
SetMoveLimit(v) ==
  /\ currentPhase = 2
  /\ LET parsed == IF v = 0 THEN 6 ELSE v
         limit == Max(1, IF parsed < 20 THEN parsed ELSE 20)
     IN /\ maxMoves # limit
        /\ Becomes([Game EXCEPT !.maxMoves = limit])
  /\ last' = Observed("moveLimit")

useDefaultPosition(s) == nextPhase(setPositionFromFEN(s, StandardFEN))

UseDefaultPosition ==
  /\ currentPhase = 0
  /\ Becomes(useDefaultPosition(Game))
  /\ last' = Observed("useDefaultPosition")

startGame(s) ==
  IF ~(\E r \in Idx, f \in Idx : s.board[r][f] = "K")
     \/ ~(\E r \in Idx, f \in Idx : s.board[r][f] = "k")
  THEN s
  ELSE syncFENFromState(
         [s EXCEPT !.currentPlayer = s.firstMove,
                   !.moveCount = [white |-> 0, black |-> 0],
                   !.scores = [white |-> 0, black |-> 0],
                   !.moveHistory = <<>>,
                   !.gameActive = TRUE,
                   !.gameResult = null,
                   !.currentPhase = 3,
                   !.pendingAI = IF s.firstMove # s.playerSide THEN @ + 1 ELSE @])

StartGame ==
  /\ currentPhase = 2
  /\ Becomes(startGame(Game))
  /\ last' = Observed("startGame")

\* results of the two move handlers
Refused(post) == [accepted |-> FALSE, post |-> post]

Accepted(from, to, piece, legality, played) ==
  [accepted |-> TRUE, post |-> played.post, legality |-> legality,
   played |-> played, piece |-> piece, from |-> from, to |-> to]

\* the last statement of endPlayerTurn, reached when neither end test ended
\* the match: setTimeout(() => this.makeAIMove(), 300)
ScheduleAIMove(played) ==
  IF played.post.gameActive /\ played.post.currentPlayer # played.post.playerSide
  THEN [played EXCEPT !.post.pendingAI = @ + 1]
  ELSE played

\* handlePlayDrop after its "must escape check" block
\* (probed: the state that block left behind)
DropDecide(from, to, piece, legalMove, probed) ==
  IF ~legalMove.ok THEN Refused(probed)
  ELSE Accepted(from, to, piece, legalMove,
         ScheduleAIMove(
           PlayMove(probed, from, to, piece, probed.board[to.rank][to.file],
                    legalMove)))

\* the end of the "must escape check" block: restore, then decide
DropEscape(from, to, piece, legalMove, snapshot, stillChecked) ==
  IF stillChecked.val
  THEN Refused(restoreSnapshot(stillChecked.post, snapshot))
  ELSE DropDecide(from, to, piece, legalMove,
                  restoreSnapshot(stillChecked.post, snapshot))

\* checked: the result of isKingInCheck(color) on the unchanged position
DropChecked(from, to, piece, color, legalMove, checked) ==
  IF ~checked.val THEN DropDecide(from, to, piece, legalMove, checked.post)
  ELSE DropEscape(from, to, piece, legalMove, snapshotState(checked.post),
         isKingInCheck(
           applyMoveToState(checked.post,
             [from |-> from, to |-> to, piece |-> piece,
              capturedPiece |-> checked.post.board[to.rank][to.file],
              promotion |-> legalMove.promotion,
              isEnPassant |-> legalMove.isEnPassant,
              isCastling |-> legalMove.isCastling], TRUE),
           color))

\* legalMove: the result of isLegalMoveWithState(from, to, piece)
DropLegal(from, to, piece, color, legalMove) ==
  DropChecked(from, to, piece, color, legalMove,
              isKingInCheck(legalMove.post, color))

\* handlePlayDrop for a drag that started on `from` and is dropped on `to`:
\* [accepted, post, legality, played, piece, from, to]
handlePlayDrop(s, from, to) ==
  LET piece == s.board[from.rank][from.file]
  IN IF piece = null THEN Refused(s)
     ELSE DropLegal(from, to, piece, ColorOf(piece),
                    isLegalMoveWithState(s, from, to, piece, null))

\* the human drags one of the pieces the board renders as draggable (own
\* piece, own turn) onto any square
HandlePlayDrop(from, to) ==
  /\ gameActive
  /\ Plies < MaxPly
  /\ currentPlayer = playerSide
  /\ board[from.rank][from.file] # null
  /\ isPieceOwnedByPlayer(board[from.rank][from.file], playerSide)
  /\ \E r \in {handlePlayDrop(Game, from, to)} :
        /\ Becomes(r.post)
        /\ last' = IF r.accepted
                   THEN ObservedMove("handlePlayDrop", Game, from, to, r.piece,
                                     r.legality, r.played)
                   ELSE last

\* a handler that applies the engine's move before it looks at the verdict
AIDecideAfterApplying(fromSquare, toSquare, piece, capturedPiece, legality) ==
  IF ~legality.ok
  THEN Refused(applyMoveToState(legality.post,
                 [from |-> fromSquare, to |-> toSquare, piece |-> piece,
                  capturedPiece |-> capturedPiece, promotion |-> null,
                  isEnPassant |-> FALSE, isCastling |-> FALSE], FALSE))
  ELSE Accepted(fromSquare, toSquare, piece, legality,
         PlayMove(legality.post, fromSquare, toSquare, piece, capturedPiece,
                  legality))

\* executeAIMove after its legality check; a refused move calls
\* handleAIFallback, which is not defined, and the handler stops there
AIDecide(fromSquare, toSquare, piece, capturedPiece, legality) ==
  IF ~legality.ok THEN Refused(legality.post)
  ELSE Accepted(fromSquare, toSquare, piece, legality,
         PlayMove(legality.post, fromSquare, toSquare, piece, capturedPiece,
                  legality))

\* executeAIMove for the move text the engine returned:
\* [accepted, post, legality, played, piece, from, to]
executeAIMove(s, moveString) ==
  LET fromSquare == algebraicToCoords(SubSeq(moveString, 1, 2))
      toSquare == algebraicToCoords(SubSeq(moveString, 3, 4))
      promoChar == IF Len(moveString) > 4 THEN moveString[5] ELSE null
      piece == s.board[fromSquare.rank][fromSquare.file]
      capturedPiece == s.board[toSquare.rank][toSquare.file]
  IN AIDecide(fromSquare, toSquare, piece, capturedPiece,
              isLegalMoveWithState(s, fromSquare, toSquare, piece, promoChar))

\* makeAIMove once getBestMove has resolved to bestMove; <<>> stands for the
\* null that getBestMove returns for a failed request, a missing bestmove or
\* the text '(none)'.  handleAIFallback is not defined: the call throws and
\* the handler stops there.
makeAIMove(s, bestMove) ==
  IF ~s.gameActive \/ s.currentPlayer = s.playerSide THEN Refused(s)
  ELSE IF bestMove = <<>> THEN Refused(s)
  ELSE executeAIMove(s, bestMove)

\* a scheduled makeAIMove runs and the engine returns a move text
\* (the engine is taken to name an origin square that holds a piece, and to
\* add a promotion letter only for a destination on the first or eighth rank)
ExecuteAIMove(from, to, promo) ==
  /\ pendingAI > 0
  /\ gameActive
  /\ Plies < MaxPly
  /\ currentPlayer # playerSide
  /\ board[from.rank][from.file] # null
  /\ promo = <<>> \/ to.rank \in {0, 7}
  /\ \E r \in {makeAIMove([Game EXCEPT !.pendingAI = @ - 1],
                            coordsToAlgebraic(from)
                              \o coordsToAlgebraic(to) \o promo)} :
        /\ Becomes(r.post)
        /\ last' = IF r.accepted
                   THEN ObservedMove("executeAIMove", Game, r.from, r.to, r.piece,
                                     r.legality, r.played)
                   ELSE last

\* a scheduled makeAIMove runs and the engine supplies no move
MakeAIMoveNoBestMove ==
  /\ pendingAI > 0
  /\ gameActive
  /\ currentPlayer # playerSide
  /\ Becomes(makeAIMove([Game EXCEPT !.pendingAI = @ - 1], <<>>).post)
  /\ last' = last

\* ------------------------------------------------------- specification
\* searches the server is asked for
MaxRequests == 3

Requests == 1..MaxRequests

\* the PatriciaEngine after the handshake: no search listener, no go command
\* outstanding; result[id] is 0 while search id is unresolved, -1 once it has
\* resolved with 'search timeout', and otherwise the go command whose
\* bestmove line it resolved with; resolves[id] counts its resolve calls
EngineStarted ==
  [listeners |-> {}, timers |-> {}, sent |-> <<>>,
   result |-> [id \in Requests |-> 0], resolves |-> [id \in Requests |-> 0]]

Starts(s) ==
  /\ board = s.board
  /\ currentFEN = s.currentFEN
  /\ currentPlayer = s.currentPlayer
  /\ castlingRights = s.castlingRights
  /\ enPassantTarget = s.enPassantTarget
  /\ halfmoveClock = s.halfmoveClock
  /\ fullmoveNumber = s.fullmoveNumber
  /\ scores = s.scores
  /\ firstMove = s.firstMove
  /\ playerSide = s.playerSide
  /\ maxMoves = s.maxMoves
  /\ moveCount = s.moveCount
  /\ gameActive = s.gameActive
  /\ gameResult = s.gameResult
  /\ moveHistory = s.moveHistory
  /\ currentPhase = s.currentPhase
  /\ pendingAI = s.pendingAI
  /\ stockfish = s.stockfish
  /\ engine = EngineStarted

Init ==
  /\ Starts(Constructed)
  /\ last = Observed("constructor")

Next ==
  \/ \E fen \in FenInputs : LoadPosition(fen)
  \/ NextPhase
  \/ \E v \in Sides : SetPlayerSide(v)
  \/ StartGame
  \/ \E from \in Squares, to \in Squares : HandlePlayDrop(from, to)
  \/ \E from \in Squares, to \in Squares, promo \in PromoInputs :
       ExecuteAIMove(from, to, promo)
  \/ MakeAIMoveNoBestMove

Spec == Init /\ [][Next]_vars

\* a scheduled makeAIMove call runs (the 300 ms or 500 ms timer fires) and the
\* request to the engine resolves, with or without a move
EngineAnswers ==
  \/ MakeAIMoveNoBestMove
  \/ \E from \in Squares, to \in Squares, promo \in PromoInputs :
       ExecuteAIMove(from, to, promo)

\* the match flow in which every scheduled makeAIMove call eventually runs
SpecLive == Init /\ [][Next]_vars /\ WF_vars(EngineAnswers)


\* ------------------------------------- the engine's first move of a match
\* values typed into the move-limit box
LimitInputs == {1, 2}

\* the human stays idle: only the engine's handler runs after the start
NextOpening ==
  \/ UseDefaultPosition
  \/ NextPhase
  \/ \E v \in Sides : SetPlayerSide(v)
  \/ \E v \in Sides : SetFirstMove(v)
  \/ \E v \in LimitInputs : SetMoveLimit(v)
  \/ StartGame
  \/ \E from \in Squares, to \in Squares, promo \in PromoInputs :
       ExecuteAIMove(from, to, promo)

SpecOpening == Init /\ [][NextOpening]_vars

\* ------------------------------------------- queries on a started match
QueryOps == {"isLegalMoveWithState", "isKingInCheck", "isSquareAttacked",
             "generateAllLegalMoves"}

\* one query is observed per run
CanQuery == gameActive /\ last.op \notin QueryOps

ObservedQuery(op, side, from, to, ok, val, run) ==
  [Observed(op) EXCEPT !.mover = side, !.from = from, !.to = to,
                       !.accepted = ok, !.val = val, !.before = FrameOf(Game),
                       !.sims = run.sims, !.nest = run.nest]

QueryLegal(from, to, promo) ==
  /\ CanQuery
  /\ \E r \in {isLegalMoveWithState(Game, from, to, board[from.rank][from.file],
                                      IF promo = <<>> THEN null ELSE promo[1])} :
        /\ Becomes(r.post)
        /\ last' = ObservedQuery("isLegalMoveWithState", null, from, to, r.ok,
                                 r.ok, r)

QueryKingInCheck(color) ==
  /\ CanQuery
  /\ \E r \in {isKingInCheck(Game, color)} :
        /\ Becomes(r.post)
        /\ last' = ObservedQuery("isKingInCheck", color, NoSquare, NoSquare,
                                 FALSE, r.val, r)

QueryAttacked(square, color) ==
  /\ CanQuery
  /\ \E r \in {isSquareAttacked(Game, square, color)} :
        /\ Becomes(r.post)
        /\ last' = ObservedQuery("isSquareAttacked", color, NoSquare, square,
                                 FALSE, r.val, r)

QueryGenAll(player) ==
  /\ CanQuery
  /\ \E r \in {generateAllLegalMoves(Game, player)} :
        /\ Becomes(r.post)
        /\ last' = ObservedQuery("generateAllLegalMoves", player, NoSquare,
                                 NoSquare, FALSE, Len(r.moves) > 0, r)

\* a pawn of each colour one step from promotion: "1n5k/P7/8/8/8/8/7p/K5N1 w - - 0 1"
PromotionFEN ==
  <<"1", "n", "5", "k", "/", "P", "7", "/", "8", "/", "8", "/", "8", "/",
    "8", "/", "7", "p", "/", "K", "5", "N", "1", " ", "w", " ", "-", " ",
    "-", " ", "0", " ", "1">>

NextQuery ==
  \/ \E fen \in FenInputs \cup {PromotionFEN} : LoadPosition(fen)
  \/ NextPhase
  \/ \E v \in Sides : SetFirstMove(v)
  \/ StartGame
  \/ \E from \in Squares, to \in Squares, promo \in PromoInputs :
       QueryLegal(from, to, promo)
  \/ \E color \in Sides : QueryKingInCheck(color)
  \/ \E square \in Squares, color \in Sides : QueryAttacked(square, color)
  \/ \E player \in Sides : QueryGenAll(player)

SpecQuery == Init /\ [][NextQuery]_vars

\* --------------------------------------- set-up and the first move of a match
\* texts typed into the load box
SetupInputs ==
  {
    \* every castling right with its rook, and a knight next to the black king: "r3k2r/8/3N4/8/8/8/8/R3K2R w KQkq - 0 1"
    <<"r", "3", "k", "2", "r", "/", "8", "/", "3", "N", "4", "/", "8", "/",
      "8", "/", "8", "/", "8", "/", "R", "3", "K", "2", "R", " ", "w", " ",
      "K", "Q", "k", "q", " ", "-", " ", "0", " ", "1">>,
    \* castling rights without rooks on the corners: "4k3/8/8/8/8/8/8/4K3 w Kq - 0 1"
    <<"4", "k", "3", "/", "8", "/", "8", "/", "8", "/", "8", "/", "8", "/",
      "8", "/", "4", "K", "3", " ", "w", " ", "K", "q", " ", "-", " ", "0",
      " ", "1">>,
    \* fullmove number 0: "k7/8/8/8/8/8/8/7K w - - 0 0"
    <<"k", "7", "/", "8", "/", "8", "/", "8", "/", "8", "/", "8", "/", "8",
      "/", "7", "K", " ", "w", " ", "-", " ", "-", " ", "0", " ", "0">>,
    \* a row that counts to 8 with the digit 0: "k07/8/8/8/8/8/8/7K w - - 0 1"
    <<"k", "0", "7", "/", "8", "/", "8", "/", "8", "/", "8", "/", "8", "/",
      "8", "/", "7", "K", " ", "w", " ", "-", " ", "-", " ", "0", " ", "1">>,
    \* two white kings: "K6K/8/8/8/8/8/8/k7 w - - 0 1"
    <<"K", "6", "K", "/", "8", "/", "8", "/", "8", "/", "8", "/", "8", "/",
      "8", "/", "k", "7", " ", "w", " ", "-", " ", "-", " ", "0", " ", "1">>,
    \* no white king: "8/8/8/8/8/8/8/k7 w - - 0 1"
    <<"8", "/", "8", "/", "8", "/", "8", "/", "8", "/", "8", "/", "8", "/",
      "k", "7", " ", "w", " ", "-", " ", "-", " ", "0", " ", "1">>,
    PromotionFEN,
    \* Black is left without a move once its b-pawn has advanced:
    \* "7K/8/8/8/8/1p6/p7/kp6 w - - 0 1"
    <<"7", "K", "/", "8", "/", "8", "/", "8", "/", "8", "/", "1", "p", "6",
      "/", "p", "7", "/", "k", "p", "6", " ", "w", " ", "-", " ", "-", " ",
      "0", " ", "1">>,
    \* Black's only mobile piece, the h-pawn, can be captured by the rook:
    \* "7K/8/8/8/8/7p/pp6/kp5R w - - 0 1"
    <<"7", "K", "/", "8", "/", "8", "/", "8", "/", "8", "/", "7", "p", "/",
      "p", "p", "6", "/", "k", "p", "5", "R", " ", "w", " ", "-", " ", "-",
      " ", "0", " ", "1">>,
    \* not a FEN: "not a fen"
    <<"n", "o", "t", " ", "a", " ", "f", "e", "n">>,
    \* a row that counts to 9: "9/8/8/8/8/8/8/8 w - - 0 1"
    <<"9", "/", "8", "/", "8", "/", "8", "/", "8", "/", "8", "/", "8", "/",
      "8", " ", "w", " ", "-", " ", "-", " ", "0", " ", "1">>
  }

\* any text is loaded, the match is configured and started, and the side that
\* moves first makes one move
NextSetup ==
  \/ \E fen \in SetupInputs : LoadPosition(fen)
  \/ NextPhase
  \/ \E v \in Sides : SetPlayerSide(v)
  \/ \E v \in Sides : SetFirstMove(v)
  \/ StartGame
  \/ \E from \in Squares, to \in Squares :
       Plies = 0 /\ HandlePlayDrop(from, to)
  \/ \E from \in Squares, to \in Squares, promo \in PromoInputs :
       Plies = 0 /\ ExecuteAIMove(from, to, promo)
  \/ MakeAIMoveNoBestMove

SpecSetup == Init /\ [][NextSetup]_vars

\* ------------------------------------------------ matches with a move limit
\* Black is left without a move once its b-pawn has advanced:
\* "7K/8/8/8/8/1p6/p7/kp6 w - - 0 1"
EnclosedKingFEN ==
  <<"7", "K", "/", "8", "/", "8", "/", "8", "/", "8", "/", "1", "p", "6",
    "/", "p", "7", "/", "k", "p", "6", " ", "w", " ", "-", " ", "-", " ",
    "0", " ", "1">>

\* short matches: both sides move, the limit is typed before the start
NextLimit ==
  \/ LoadPosition(EnclosedKingFEN)
  \/ NextPhase
  \/ \E v \in Sides : SetPlayerSide(v)
  \/ \E v \in Sides : SetFirstMove(v)
  \/ \E v \in LimitInputs : SetMoveLimit(v)
  \/ StartGame
  \/ \E from \in Squares, to \in Squares : HandlePlayDrop(from, to)
  \/ \E from \in Squares, to \in Squares, promo \in PromoInputs :
       ExecuteAIMove(from, to, promo)
  \/ MakeAIMoveNoBestMove

SpecLimit == Init /\ [][NextLimit]_vars

\* ------------------------------------------- engine requests in flight
\* both kings enclosed by their own pawns, one free pawn each on the e-file:
\* "KP6/PP2p3/8/8/8/8/4P1pp/6pk w - - 0 1"
FacingPawnsFEN ==
  <<"K", "P", "6", "/", "P", "P", "2", "p", "3", "/", "8", "/", "8", "/",
    "8", "/", "8", "/", "4", "P", "1", "p", "p", "/", "6", "p", "k", " ",
    "w", " ", "-", " ", "-", " ", "0", " ", "1">>

\* PatriciaClient.getBestMove up to its first await: null at once while
\* isThinking is set, otherwise the flag is set and the position request
\* is sent: [asked, post]
getBestMove(s) ==
  IF s.stockfish.isThinking THEN [asked |-> FALSE, post |-> s]
  ELSE [asked |-> TRUE,
        post |-> [s EXCEPT !.stockfish.isThinking = TRUE,
                           !.stockfish.position = @ + 1]]

\* makeAIMove up to `await this.stockfish.getBestMove(...)`; a null answer
\* leads to the undefined handleAIFallback and the handler stops
makeAIMoveAsks(s) ==
  IF ~s.gameActive \/ s.currentPlayer = s.playerSide THEN s
  ELSE getBestMove(s).post

\* getBestMove resumed after `await this.setPosition(fen)`: the request
\* answered ok, answered not ok, or failed (fetch rejects and the exception
\* leaves getBestMove)
setPositionAnswered(s, outcome) ==
  CASE outcome = "ok" ->
         [s EXCEPT !.stockfish.position = @ - 1, !.stockfish.go = @ + 1]
    [] outcome = "not ok" ->
         [s EXCEPT !.stockfish.position = @ - 1, !.stockfish.isThinking = FALSE]
    [] OTHER -> [s EXCEPT !.stockfish.position = @ - 1]

\* getBestMove resumed after `await this.go({ movetime })` and makeAIMove
\* resumed after it: executeAIMove for a usable bestmove (<<>>: none),
\* nothing more for a reply that is not ok, and for a failed request the
\* exception leaves getBestMove before the flag is cleared
goAnswered(s, outcome, bestMove) ==
  CASE outcome = "ok" ->
         IF bestMove = <<>>
         THEN Refused([s EXCEPT !.stockfish.go = @ - 1,
                                !.stockfish.isThinking = FALSE])
         ELSE executeAIMove([s EXCEPT !.stockfish.go = @ - 1,
                                      !.stockfish.isThinking = FALSE], bestMove)
    [] outcome = "not ok" ->
         Refused([s EXCEPT !.stockfish.go = @ - 1,
                           !.stockfish.isThinking = FALSE])
    [] OTHER -> Refused([s EXCEPT !.stockfish.go = @ - 1])

\* a makeAIMove timer fires
MakeAIMoveRuns ==
  /\ pendingAI > 0
  /\ Becomes(makeAIMoveAsks([Game EXCEPT !.pendingAI = @ - 1]))
  /\ last' = last

\* the answer to /engine/position arrives
SetPositionAnswered(outcome) ==
  /\ stockfish.position > 0
  /\ Becomes(setPositionAnswered(Game, outcome))
  /\ last' = last

\* the answer to /engine/go arrives with a bestmove (a move text whose
\* origin square is empty is refused like a missing move: GoWithoutMove)
EngineReplies(from, to, promo) ==
  /\ stockfish.go > 0
  /\ Plies < MaxPly
  /\ board[from.rank][from.file] # null
  /\ promo = <<>> \/ to.rank \in {0, 7}
  /\ \E r \in {goAnswered(Game, "ok", coordsToAlgebraic(from)
                                         \o coordsToAlgebraic(to) \o promo)} :
        /\ Becomes(r.post)
        /\ last' = IF r.accepted
                   THEN ObservedMove("executeAIMove", Game, r.from, r.to, r.piece,
                                     r.legality, r.played)
                   ELSE last

\* the answer to /engine/go carries no move, is not ok, or never arrives
GoWithoutMove(outcome) ==
  /\ stockfish.go > 0
  /\ Becomes(goAnswered(Game, outcome, <<>>).post)
  /\ last' = last

\* the Resign button
resignGame(s) ==
  IF s.gameActive
  THEN endGame(s, IF s.playerSide = "white" THEN "white resigned"
                  ELSE "black resigned")
  ELSE s

ResignGame ==
  /\ currentPhase = 3
  /\ gameActive
  /\ Becomes(resignGame(Game))
  /\ last' = Observed("resignGame")

\* the Play Again button of the results phase
PlayAgain ==
  /\ currentPhase = 4
  /\ Becomes([Game EXCEPT !.currentPhase = 2])
  /\ last' = Observed("playAgain")

RequestOutcomes == {"ok", "not ok", "fails"}

NextEngine ==
  \/ LoadPosition(FacingPawnsFEN)
  \/ NextPhase
  \/ StartGame
  \/ \E from \in Squares, to \in Squares : HandlePlayDrop(from, to)
  \/ MakeAIMoveRuns
  \/ \E outcome \in RequestOutcomes : SetPositionAnswered(outcome)
  \/ \E from \in Squares, to \in Squares, promo \in PromoInputs :
       EngineReplies(from, to, promo)
  \/ \E outcome \in RequestOutcomes : GoWithoutMove(outcome)
  \/ ResignGame
  \/ PlayAgain

SpecEngine == Init /\ [][NextEngine]_vars

\* ------------------------------------------ searches on the shared engine
\* PatriciaEngine.search(goCmd, timeoutMs) called by POST /engine/go for
\* request id: the line listener is registered, the go command is written
\* to the engine process, and a timer is started when timeoutMs > 0
search(e, id, timed) ==
  [e EXCEPT !.listeners = @ \cup {id},
            !.sent = Append(@, id),
            !.timers = IF timed THEN @ \cup {id} ELSE @]

\* the engine process prints the bestmove line of the oldest go command it
\* has not answered; emit('line') calls every registered onLine listener,
\* and each of them cleans up and resolves its search with that line
onBestmoveLine(e) ==
  [e EXCEPT !.sent = Tail(@),
            !.listeners = {},
            !.timers = @ \ e.listeners,
            !.result = [id \in Requests |->
                          IF id \in e.listeners THEN Head(e.sent) ELSE @[id]],
            !.resolves = [id \in Requests |->
                            IF id \in e.listeners THEN @[id] + 1 ELSE @[id]]]

\* the timer of search id fires: when the search is unresolved the engine is
\* told to stop, the listener is removed and the search resolves not ok
onSearchTimeout(e, id) ==
  IF e.result[id] # 0 THEN [e EXCEPT !.timers = @ \ {id}]
  ELSE [e EXCEPT !.timers = @ \ {id},
                 !.listeners = @ \ {id},
                 !.result[id] = -1,
                 !.resolves[id] = @ + 1]

\* the page's fields, which the server never touches
pageVars == <<board, currentFEN, currentPlayer, castlingRights, enPassantTarget,
              halfmoveClock, fullmoveNumber, scores, firstMove, playerSide,
              maxMoves, moveCount, gameActive, gameResult, moveHistory,
              currentPhase, pendingAI, stockfish, last>>

\* POST /engine/go for a request that has not been made yet, with or without
\* timelimitMs in its body
PostEngineGo(id, timed) ==
  /\ id \notin engine.listeners
  /\ engine.result[id] = 0
  /\ \A i \in 1..Len(engine.sent) : engine.sent[i] # id
  /\ engine' = search(engine, id, timed)
  /\ UNCHANGED pageVars

BestmoveLine ==
  /\ engine.sent # <<>>
  /\ engine' = onBestmoveLine(engine)
  /\ UNCHANGED pageVars

SearchTimeout(id) ==
  /\ id \in engine.timers
  /\ engine' = onSearchTimeout(engine, id)
  /\ UNCHANGED pageVars

NextServer ==
  \/ \E id \in Requests, timed \in BOOLEAN : PostEngineGo(id, timed)
  \/ BestmoveLine
  \/ \E id \in Requests : SearchTimeout(id)

SpecServer == Init /\ [][NextServer]_vars

\* ------------------------------------------------- reference definitions
\* the piece on `from` reaches `to` by the movement rule of its kind alone:
\* no turn test, no castling, no king-safety step
Reaches(s, from, to) ==
  LET piece == s.board[from.rank][from.file]
      targetPiece == s.board[to.rank][to.file]
  IN /\ piece # null
     /\ from # to
     /\ ~(targetPiece # null /\ isSameColor(piece, targetPiece))
     /\ IF toLowerCase(piece) = "p"
        THEN PawnRule(s, from, to, ColorOf(piece), targetPiece, null).ok
        ELSE SimpleRule(s, from, to, toLowerCase(piece)).ok

\* some piece of `byColor` reaches `square`
Attacked(s, square, byColor) ==
  \E from \in Squares :
     /\ s.board[from.rank][from.file] # null
     /\ isPieceOwnedByPlayer(s.board[from.rank][from.file], byColor)
     /\ Reaches(s, from, square)

KingOf(color) == IF color = "white" THEN "K" ELSE "k"

KingSquares(b, color) == {sq \in Squares : b[sq.rank][sq.file] = KingOf(color)}

OneKingEach(b) ==
  /\ Cardinality(KingSquares(b, "white")) = 1
  /\ Cardinality(KingSquares(b, "black")) = 1

\* the observed move was a pawn advancing two ranks
DoubleStep(o) ==
  /\ o.piece # null
  /\ toLowerCase(o.piece) = "p"
  /\ abs(o.to.rank - o.from.rank) = 2

\* the square a castling king passes over
SkippedFile(o) == Sq(o.from.rank, (o.from.file + o.to.file) \div 2)

\* the square a double step passed over, and its text
SkippedSquare(o) == Sq((o.from.rank + o.to.rank) \div 2, o.from.file)

SquareText(sq) == <<FileLetters[sq.file + 1], DigitChar(8 - sq.rank)>>

\* ---------------------------------------------------------------- claims
\* C1: with one king per side on the board, every move the legality checker
\* accepted and the applier applied leaves the mover's king on a square that
\* no enemy piece reaches.
C1_AcceptedMoveLeavesKingSafe ==
  (last.accepted /\ OneKingEach(board)) =>
     \A k \in KingSquares(board, last.mover) :
        ~Attacked(Game, k, Other(last.mover))

\* C2: a castling move is accepted only if no enemy piece reaches the king's
\* square, the square it passes over or its destination, in the position the
\* move was made from.
C2_NoCastlingThroughAttack ==
  (last.accepted /\ last.isCastling) =>
     \A sq \in {last.from, SkippedFile(last), last.to} :
        ~Attacked(last.before, sq, Other(last.mover))

\* C3: a call of isLegalMoveWithState, isKingInCheck, isSquareAttacked or
\* generateAllLegalMoves leaves the board, the side to move, the castling
\* rights, the en-passant target, both counters, the scores and currentFEN
\* as they were before the call.
C3_QueriesKeepTheFrame ==
  last.op \in QueryOps => FrameOf(Game) = last.before

\* an enumeration in which simulated moves were applied and rolled back
C3_Witness ==
  /\ last.op = "generateAllLegalMoves"
  /\ last.val
  /\ last.sims > 1

\* C4: when the tested side has no legal move, the match ends 'Checkmate'
\* exactly when an enemy piece reaches the tested side's king, and
\* 'Stalemate' otherwise.
C4_CheckmateIffKingAttacked ==
  (last.accepted /\ ~last.hasMoves /\ OneKingEach(board)) =>
     /\ ~gameActive
     /\ gameResult.reason \in {"Checkmate", "Stalemate"}
     /\ gameResult.reason = "Checkmate" <=>
          \E k \in KingSquares(board, last.tested) :
             Attacked(Game, k, Other(last.tested))

\* C5: after every applied move the checkmate/stalemate test runs first and
\* is made for the side whose turn is about to start (the opponent of the
\* mover); the move-limit test runs after it.
C5_EarlyTestForNextSide ==
  last.accepted =>
     /\ last.tested = Other(last.mover)
     /\ last.tests \in {<<"checkGameEndEarly">>,
                        <<"checkGameEndEarly", "checkGameEnd">>}

\* C6: during a match, a diagonal pawn move onto an empty square is accepted
\* only when the move applied last was an enemy double step over that
\* square; after any other applied move the en-passant target is "-".
C6_EnPassantOnlyRightAfterDoubleStep ==
  (gameActive /\ Plies >= 1) =>
     /\ last.accepted
     /\ ~DoubleStep(last) => enPassantTarget = <<"-">>
     /\ \A from \in Squares, to \in Squares :
           LET piece == board[from.rank][from.file]
           IN (/\ piece # null
               /\ toLowerCase(piece) = "p"
               /\ to.file # from.file
               /\ board[to.rank][to.file] = null
               /\ isLegalMoveWithState(Game, from, to, piece, null).ok)
              => /\ DoubleStep(last)
                 /\ last.mover = Other(currentPlayer)
                 /\ to = SkippedSquare(last)

\* an en-passant capture applied on the ply right after the double step
C6_Witness ==
  /\ last.accepted
  /\ last.isEnPassant
  /\ Plies = 2
  /\ Len(moveHistory) = 2

\* C7: during a match, a castling right that is false stays false through
\* every legality check, enumeration, applied move and turn change.
C7_CastlingRightsNeverReturn ==
  [][gameActive =>
       \A k \in {"K", "Q", "k", "q"} : ~castlingRights[k] => ~castlingRights'[k]]_vars

\* White castled away its right, and Black's reply left it false
C7_Witness ==
  /\ Plies = 2
  /\ Len(moveHistory) = 2
  /\ moveHistory[1] = <<"O", "-", "O">>
  /\ ~castlingRights.K

\* C8: isSquareAttacked(square, color) is true exactly when some piece of
\* the opposing colour reaches the square by the movement rule of its kind,
\* whichever side is to move.
C8_AttackQueryIsPseudoLegalReach ==
  last.op = "isSquareAttacked" =>
     (last.val <=> Attacked(Game, last.to, Other(last.mover)))

\* C9: an attack query executes no simulate-then-verify step.
C9_AttackQueryNeverSimulates ==
  last.op = "isSquareAttacked" => last.sims = 0

\* "rnbqkbnr/pppppppp/8/8/4P3/8/PPPP1PPP/RNBQKBNR b KQkq e3 0 1"
E2E4FEN ==
  <<"r", "n", "b", "q", "k", "b", "n", "r", "/", "p", "p", "p", "p", "p",
    "p", "p", "p", "/", "8", "/", "8", "/", "4", "P", "3", "/", "8", "/",
    "P", "P", "P", "P", "1", "P", "P", "P", "/", "R", "N", "B", "Q", "K",
    "B", "N", "R", " ", "b", " ", "K", "Q", "k", "q", " ", "e", "3", " ",
    "0", " ", "1">>

\* C10: every applied double step leaves the skipped square as en-passant
\* target and every other applied move leaves "-"; the engine move e2e4 on
\* the standard start leaves the target e3 and, once the turn is completed,
\* currentFEN 'rnbqkbnr/pppppppp/8/8/4P3/8/PPPP1PPP/RNBQKBNR b KQkq e3 0 1'.
C10_EnPassantTargetAfterMove ==
  /\ last.accepted =>
        enPassantTarget = IF DoubleStep(last)
                          THEN SquareText(SkippedSquare(last)) ELSE <<"-">>
  /\ (gameActive /\ Plies = 0 /\ currentFEN = StandardFEN) =>
        LET r == executeAIMove(Game, <<"e", "2", "e", "4">>)
        IN /\ r.accepted
           /\ r.post.enPassantTarget = <<"e", "3">>
           /\ r.post.currentFEN = E2E4FEN
  /\ (/\ last.accepted
      /\ last.op = "executeAIMove"
      /\ last.before.currentFEN = StandardFEN
      /\ last.from = Sq(6, 4)
      /\ last.to = Sq(4, 4)) => currentFEN = E2E4FEN

\* the engine opened e2e4 on the standard start
C10_Witness ==
  /\ last.accepted
  /\ last.op = "executeAIMove"
  /\ last.before.currentFEN = StandardFEN
  /\ last.from = Sq(6, 4)
  /\ last.to = Sq(4, 4)
  /\ currentPlayer = "black"

\* C11: an applied castling move leaves the king on the g- or c-file square,
\* the rook that stood on the matching corner on the square the king passed
\* over, the king's and the rook's origin squares empty, both castling rights
\* of the mover cleared and the opponent's rights as they were.
C11_CastlingMovesKingAndRook ==
  (last.accepted /\ last.isCastling) =>
     LET corner == Sq(last.from.rank, IF last.to.file = 6 THEN 7 ELSE 0)
         passed == SkippedFile(last)
         rook == IF last.mover = "white" THEN "R" ELSE "r"
         own == IF last.mover = "white" THEN {"K", "Q"} ELSE {"k", "q"}
     IN /\ last.to.file \in {2, 6}
        /\ last.piece = KingOf(last.mover)
        /\ board[last.to.rank][last.to.file] = KingOf(last.mover)
        /\ last.before.board[corner.rank][corner.file] = rook
        /\ board[passed.rank][passed.file] = rook
        /\ board[last.from.rank][last.from.file] = null
        /\ board[corner.rank][corner.file] = null
        /\ \A k \in own : ~castlingRights[k]
        /\ \A k \in {"K", "Q", "k", "q"} \ own :
              castlingRights[k] = last.before.castlingRights[k]

C13_CastlingRightsClearedExactly ==
  last.accepted =>
     LET kingGone(king) == last.piece = king \/ last.capturedPiece = king
         rookGone(rook, corner) ==
              \/ last.piece = rook /\ last.from = corner
              \/ last.capturedPiece = rook /\ last.to = corner
         kept(k, king, rook, corner) ==
              castlingRights[k] = (/\ last.before.castlingRights[k]
                                   /\ ~kingGone(king)
                                   /\ ~rookGone(rook, corner))
     IN /\ kept("K", "K", "R", Sq(7, 7))
        /\ kept("Q", "K", "R", Sq(7, 0))
        /\ kept("k", "k", "r", Sq(0, 7))
        /\ kept("q", "k", "r", Sq(0, 0))
        /\ (/\ ~kingGone("K") /\ ~kingGone("k")
            /\ ~rookGone("R", Sq(7, 7)) /\ ~rookGone("R", Sq(7, 0))
            /\ ~rookGone("r", Sq(0, 7)) /\ ~rookGone("r", Sq(0, 0)))
           => castlingRights = last.before.castlingRights

\* a rook captured the rook on a8: the rights of both corners went, the
\* kingside rights stayed
C13_Witness ==
  /\ last.accepted
  /\ last.piece = "R"
  /\ last.from = Sq(7, 0)
  /\ last.capturedPiece = "r"
  /\ last.to = Sq(0, 0)
  /\ castlingRights = [K |-> TRUE, Q |-> FALSE, k |-> TRUE, q |-> FALSE]

\* the six fields of a Position
PositionOf(s) ==
  [board |-> s.board, currentPlayer |-> s.currentPlayer,
   castlingRights |-> s.castlingRights, enPassantTarget |-> s.enPassantTarget,
   halfmoveClock |-> s.halfmoveClock, fullmoveNumber |-> s.fullmoveNumber]

\* C14: for every position of a match, decoding the text syncFENFromState
\* writes for it gives back the same board, side to move, castling rights,
\* en-passant target, halfmove clock and fullmove number.
C14_EncodeThenDecodeIsIdentity ==
  currentPhase >= 3 =>
     PositionOf(setPositionFromFEN(Game, syncFENFromState(Game).currentFEN))
       = PositionOf(Game)

\* C15: for every text validateFEN accepts, decoding it, encoding the result
\* and decoding again gives the Position of the first decoding.
C15_DecodeEncodeDecode ==
  last.op = "loadPosition" =>
     /\ validateFEN(currentFEN)
     /\ PositionOf(Game) = PositionOf(setPositionFromFEN(Constructed, currentFEN))
     /\ PositionOf(setPositionFromFEN(Game, syncFENFromState(Game).currentFEN))
          = PositionOf(Game)

\* C16: a text validateFEN accepts has a placement field of exactly 8 rows
\* separated by '/', each written with the 12 piece letters and the digits
\* 1 to 8 only and each counting 8 squares.
C16_AcceptedPlacementIsWellFormed ==
  last.op = "loadPosition" =>
     LET rows == Split(Split(currentFEN, " ")[1], "/")
     IN /\ Len(rows) = 8
        /\ \A k \in 1..Len(rows) :
              /\ AllIn(rows[k], PieceChars \cup {"1", "2", "3", "4", "5", "6", "7", "8"})
              /\ RowCount(rows[k], 1) = 8

\* C17: isLegalMoveWithState gives the same verdict, and the same en-passant,
\* castling and promotion-kind results, for a candidate move and for its
\* mirror image in the position that is flipped top to bottom with the
\* colours of the pieces, the side to move, the castling rights and the
\* en-passant target exchanged.
C17_LegalityIsColourSymmetric ==
  last.op = "isLegalMoveWithState" =>
     LET swap(p) == IF p = null THEN null
                    ELSE IF p \in WhitePieces THEN toLowerCase(p) ELSE toUpperCase(p)
         flip(sq) == Sq(7 - sq.rank, sq.file)
         ep == enPassantTarget
         mirrored ==
           [Game EXCEPT
              !.board = [r \in Idx |-> [f \in Idx |-> swap(board[7 - r][f])]],
              !.currentPlayer = Other(currentPlayer),
              !.castlingRights = [K |-> castlingRights.k, Q |-> castlingRights.q,
                                  k |-> castlingRights.K, q |-> castlingRights.Q],
              !.enPassantTarget =
                 IF Len(ep) = 2 /\ ep[2] \in DigitChars
                 THEN <<ep[1], DigitChar(9 - DigitVal(ep[2]))>> ELSE ep]
         piece == board[last.from.rank][last.from.file]
     IN \A promo \in {null, "n", "x"} :
           LET here == isLegalMoveWithState(Game, last.from, last.to, piece, promo)
               there == isLegalMoveWithState(mirrored, flip(last.from),
                                             flip(last.to), swap(piece), promo)
           IN /\ here.ok = there.ok
              /\ here.isEnPassant = there.isEnPassant
              /\ here.isCastling = there.isCastling
              /\ swap(here.promotion) = there.promotion

\* an accepted promotion, an accepted en-passant capture or an accepted
\* castling move of Black was compared with White's mirror image
C17_Witness ==
  /\ last.op = "isLegalMoveWithState"
  /\ last.accepted
  /\ currentPlayer = "black"
  /\ LET v == isLegalMoveWithState(Game, last.from, last.to,
                                   board[last.from.rank][last.from.file], null)
     IN v.promotion = "q"

\* C18: startGame makes the match active only on a board with exactly one
\* White king and exactly one Black king; on any other board it leaves
\* gameActive, the move counts, the scores and the phase as they were.
C18_StartNeedsOneKingEach ==
  [][last'.op = "startGame" =>
        /\ (gameActive' /\ ~gameActive) => OneKingEach(board)
        /\ ~OneKingEach(board) =>
              UNCHANGED <<gameActive, moveCount, scores, currentPhase>>]_vars

\* C19: a makeAIMove call that ends without an accepted move (the engine
\* supplied no move, or a move the legality checker rejects) leaves the
\* board, the side to move, the castling rights, the en-passant target, both
\* clocks, the move counts, the scores and the move history as they were.
C19_UnusableReplyChangesNothing ==
  [][(pendingAI' < pendingAI /\ last' = last) =>
        UNCHANGED <<board, currentPlayer, castlingRights, enPassantTarget,
                    halfmoveClock, fullmoveNumber, moveCount, scores,
                    moveHistory>>]_vars

\* after the human's move the engine's call ended without a move
C19_Witness ==
  /\ gameActive
  /\ currentPlayer # playerSide
  /\ pendingAI = 0
  /\ Len(moveHistory) = 1
  /\ last.op = "handlePlayDrop"

\* C20: whenever the engine is to move in an active match (below the ply
\* bound of the model), the match eventually ends or the other side is to
\* move, whatever the engine answers.
C20_EngineTurnEnds ==
  (gameActive /\ currentPlayer # playerSide /\ Plies < MaxPly)
     ~> (~gameActive \/ currentPlayer = playerSide)

\* C21: an applied pawn move, capture or en-passant capture leaves the
\* halfmove clock at 0, every other applied move leaves it one above its
\* value before the move, and the clock is never negative.
C21_HalfmoveClock ==
  /\ halfmoveClock >= 0
  /\ last.accepted =>
        halfmoveClock =
           IF \/ toLowerCase(last.piece) = "p"
              \/ last.capturedPiece # null
              \/ last.isEnPassant
           THEN 0 ELSE last.before.halfmoveClock + 1

\* a capture by a piece reset a clock that a quiet move had raised to 1
C21_Witness ==
  /\ last.accepted
  /\ toLowerCase(last.piece) # "p"
  /\ last.capturedPiece # null
  /\ last.before.halfmoveClock = 1
  /\ halfmoveClock = 0

\* C22: an applied move of Black leaves the fullmove number one above its
\* value before the move, and an applied move of White leaves it as it was.
C22_FullmoveNumber ==
  last.accepted =>
     fullmoveNumber = last.before.fullmoveNumber
                        + (IF last.mover = "black" THEN 1 ELSE 0)

\* C23 as stated: after an applied move no pawn stands on the first or the
\* eighth rank.
C23_NoPawnOnBackRanks ==
  last.accepted =>
     \A r \in {0, 7}, f \in Idx : board[r][f] \notin {"P", "p"}

\* C23: a pawn move onto the far rank that the legality checker accepts
\* resolves a queen, rook, bishop or knight of the mover's colour, the
\* piece of the caller's letter and a queen when the letter is missing or
\* names no such piece; once the move is applied the destination holds that
\* piece, and a pawn found on the first or eighth rank stood on that rank
\* before the move.
C23_PromotionResolved ==
  /\ (gameActive /\ Plies = 0) =>
        \A from \in Squares, to \in Squares :
           \A promo \in {null, "q", "r", "b", "n", "N", "k", "x"} :
              LET piece == board[from.rank][from.file]
                  white == currentPlayer = "white"
                  kind == IF toLowerCase(promo) \in {"r", "b", "n"}
                          THEN toLowerCase(promo) ELSE "q"
              IN (/\ piece = (IF white THEN "P" ELSE "p")
                  /\ to.rank = (IF white THEN 0 ELSE 7)
                  /\ isLegalMoveWithState(Game, from, to, piece, promo).ok)
                 => isLegalMoveWithState(Game, from, to, piece, promo).promotion
                      = (IF white THEN toUpperCase(kind) ELSE kind)
  /\ last.accepted =>
        /\ (toLowerCase(last.piece) = "p" /\ last.to.rank \in {0, 7}) =>
              /\ last.promotion \in
                    (IF last.mover = "white" THEN {"Q", "R", "B", "N"}
                                             ELSE {"q", "r", "b", "n"})
              /\ board[last.to.rank][last.to.file] = last.promotion
        /\ \A r \in {0, 7}, f \in Idx :
              board[r][f] \in {"P", "p"} =>
                 \E g \in Idx : last.before.board[r][g] = board[r][f]

\* the engine promoted a white pawn to a knight on the eighth rank
C23_Witness ==
  /\ last.accepted
  /\ last.op = "executeAIMove"
  /\ last.piece = "P"
  /\ last.to.rank = 0
  /\ last.promotion = "N"
  /\ board[last.to.rank][last.to.file] = "N"

\* C24: isLegalMoveWithState accepts a move only if the moving piece belongs
\* to the side to move, the destination holds no piece of that side, and the
\* move has the shape of its kind: a pawn one empty square forward, two from
\* its home rank through two empty squares, or one diagonally forward onto an
\* enemy piece or the en-passant target; a knight by a jump offset; a bishop,
\* rook or queen along its axes with every square in between empty; a king
\* to an adjacent square or by the castling shape.
C24_AcceptedMoveIsPseudoLegal ==
  (last.op = "isLegalMoveWithState" /\ last.accepted) =>
     LET b == last.before.board
         side == last.before.currentPlayer
         from == last.from
         to == last.to
         piece == b[from.rank][from.file]
         target == b[to.rank][to.file]
         dr == to.rank - from.rank
         df == to.file - from.file
         n == Max(abs(dr), abs(df))
         between == {Sq(from.rank + sign(dr) * i, from.file + sign(df) * i) :
                        i \in 1..(n - 1)}
         allEmpty(S) == \A sq \in S : b[sq.rank][sq.file] = null
         straight == (dr = 0) # (df = 0)
         diagonal == abs(dr) = abs(df) /\ dr # 0
         fwd == IF side = "white" THEN -1 ELSE 1
         home == IF side = "white" THEN 6 ELSE 1
         right == IF side = "white"
                  THEN (IF df > 0 THEN last.before.castlingRights.K
                                  ELSE last.before.castlingRights.Q)
                  ELSE (IF df > 0 THEN last.before.castlingRights.k
                                  ELSE last.before.castlingRights.q)
     IN /\ piece # null
        /\ ColorOf(piece) = side
        /\ target = null \/ ColorOf(target) # side
        /\ CASE toLowerCase(piece) = "p" ->
                   \/ df = 0 /\ dr = fwd /\ target = null
                   \/ df = 0 /\ dr = 2 * fwd /\ from.rank = home
                         /\ target = null /\ allEmpty(between)
                   \/ abs(df) = 1 /\ dr = fwd
                         /\ (target # null
                               \/ SquareText(to) = last.before.enPassantTarget)
             [] toLowerCase(piece) = "n" -> {abs(dr), abs(df)} = {1, 2}
             [] toLowerCase(piece) = "b" -> diagonal /\ allEmpty(between)
             [] toLowerCase(piece) = "r" -> straight /\ allEmpty(between)
             [] toLowerCase(piece) = "q" ->
                   (straight \/ diagonal) /\ allEmpty(between)
             [] toLowerCase(piece) = "k" ->
                   \/ n = 1
                   \/ /\ dr = 0 /\ abs(df) = 2
                      /\ from = Sq(IF side = "white" THEN 7 ELSE 0, 4)
                      /\ right
                      /\ allEmpty({Sq(from.rank, f) :
                                     f \in IF df > 0 THEN 5..6 ELSE 1..3})

\* a bishop, rook or queen was accepted over a path with a square in between
C24_Witness ==
  /\ last.op = "isLegalMoveWithState"
  /\ last.accepted
  /\ toLowerCase(last.before.board[last.from.rank][last.from.file])
        \in {"b", "r", "q"}
  /\ Max(abs(last.to.rank - last.from.rank),
         abs(last.to.file - last.from.file)) >= 2

\* C25: after any applied move of a match the en-passant target is "-" or
\* names an empty square on the third or sixth rank that lies directly
\* between the origin and the destination of the pawn double step just
\* played, and that pawn stands on the adjacent rank of the same file.
C25_EnPassantTargetIsBehindThePawn ==
  last.accepted =>
     \/ enPassantTarget = <<"-">>
     \/ \E sq \in Squares :
           /\ enPassantTarget = SquareText(sq)
           /\ sq.rank \in {2, 5}
           /\ board[sq.rank][sq.file] = null
           /\ DoubleStep(last)
           /\ sq.file = last.from.file /\ sq.file = last.to.file
           /\ abs(sq.rank - last.from.rank) = 1
           /\ abs(sq.rank - last.to.rank) = 1
           /\ last.from.rank # last.to.rank
           /\ board[last.to.rank][last.to.file] = last.piece
           /\ last.piece = (IF sq.rank = 5 THEN "P" ELSE "p")
           /\ last.to.rank = (IF sq.rank = 5 THEN 4 ELSE 3)

\* Black's pawn advanced two squares and left a target on the sixth rank
C25_Witness ==
  /\ last.accepted
  /\ last.piece = "p"
  /\ DoubleStep(last)
  /\ Len(enPassantTarget) = 2
  /\ enPassantTarget[2] = "6"

\* C26: isLegalMoveWithState accepts a castling move only if a rook of the
\* mover's colour stands on the corner of that wing, so that an applied
\* castling move relocates a king and a rook of the same colour together,
\* for every position the board editor can produce.
C26_CastlingNeedsRookOnCorner ==
  LET rookOf(color) == IF color = "white" THEN "R" ELSE "r"
  IN /\ gameActive =>
          \A from \in {Sq(7, 4), Sq(0, 4)}, toFile \in {2, 6} :
             LET v == isLegalMoveWithState(Game, from, Sq(from.rank, toFile),
                                           board[from.rank][from.file], null)
             IN (v.ok /\ v.isCastling) =>
                   board[from.rank][IF toFile = 6 THEN 7 ELSE 0]
                      = rookOf(currentPlayer)
     /\ (last.accepted /\ last.isCastling) =>
          LET passed == SkippedFile(last)
          IN /\ board[last.to.rank][last.to.file] = KingOf(last.mover)
             /\ board[passed.rank][passed.file] = rookOf(last.mover)

\* C27: whenever a scheduled makeAIMove passes its guard and asks the engine
\* for a move, the FEN it sends, currentFEN, is the encoding of the current
\* board, side to move, castling rights, en-passant target, halfmove clock
\* and fullmove number.
C27_EngineIsSentTheCurrentPosition ==
  (pendingAI > 0 /\ gameActive /\ currentPlayer # playerSide) =>
     currentFEN = EncodeFEN(Game)

\* the engine is asked for its reply to a move the human played
C27_Witness ==
  /\ pendingAI > 0
  /\ gameActive
  /\ currentPlayer # playerSide
  /\ last.accepted
  /\ last.op = "handlePlayDrop"
  /\ currentFEN # last.before.currentFEN

\* C28: in a match started with exactly one king of each colour both kings
\* are still on the board after any sequence of applied accepted moves: no
\* accepted move captures a king.
C28_KingsStayOnTheBoard ==
  last.accepted =>
     /\ last.capturedPiece \notin {"K", "k"}
     /\ OneKingEach(last.before.board) => OneKingEach(board)

\* C29: if every castling right held in a position has that colour's king on
\* its home square and a rook of the same colour on the matching corner, the
\* same is true of the position an applied accepted move leaves; so from a
\* starting position of that kind it is true after any sequence of applied
\* accepted moves.
C29_HeldRightsKeepKingAndRook ==
  LET Backed(b, cr) ==
        /\ cr.K => b[7][4] = "K" /\ b[7][7] = "R"
        /\ cr.Q => b[7][4] = "K" /\ b[7][0] = "R"
        /\ cr.k => b[0][4] = "k" /\ b[0][7] = "r"
        /\ cr.q => b[0][4] = "k" /\ b[0][0] = "r"
  IN (last.accepted /\ Backed(last.before.board, last.before.castlingRights))
        => Backed(board, castlingRights)

\* a rook left its corner to capture the rook on the opposite corner while
\* rights of both colours on the other wing stay held
C29_Witness ==
  /\ last.accepted
  /\ last.piece = "R"
  /\ last.capturedPiece = "r"
  /\ last.before.castlingRights = [K |-> TRUE, Q |-> TRUE, k |-> TRUE, q |-> TRUE]
  /\ Cardinality({x \in {"K", "Q", "k", "q"} : castlingRights[x]}) = 2
  /\ board[7][4] = "K" /\ board[0][4] = "k"

\* C30: whenever a match is active the side to move has at least one move
\* that isLegalMoveWithState accepts: a position in which the side to move
\* has no accepted move is never left active.
C30_ActiveSideHasAMove ==
  gameActive => Len(generateAllLegalMoves(Game, currentPlayer).moves) > 0

C32_SimulationsAreBoundedAndNeverNested ==
  /\ last.nest <= 1
  /\ last.sims >= 0
  /\ last.op \in {"isLegalMoveWithState", "handlePlayDrop", "executeAIMove"}
        => last.sims <= 1
  /\ last.op \in QueryOps =>
        /\ last.sims <= 64 * 63
        /\ (last.sims > 0) = (last.nest = 1)
        /\ board = last.before.board
        /\ currentPlayer = last.before.currentPlayer
        /\ castlingRights = last.before.castlingRights
        /\ enPassantTarget = last.before.enPassantTarget

\* an attack query about the side that is not to move simulated more than
\* one candidate of the side to move, one snapshot at a time
C32_Witness ==
  /\ last.op = "isSquareAttacked"
  /\ last.mover # currentPlayer
  /\ last.sims > 1
  /\ last.nest = 1

\* C33: a reply of the engine that arrives after the match has ended leaves
\* the board, the scores, the move counts and the move history of the ended
\* match as they are.
C33_LateReplyChangesNothing ==
  [][(stockfish.go > 0 /\ stockfish'.go < stockfish.go /\ ~gameActive) =>
        UNCHANGED <<board, scores, moveCount, moveHistory>>]_vars

\* C34: PatriciaClient has at most one engine request in flight, and
\* isThinking is false whenever no getBestMove call is in progress: it is
\* cleared when a call finishes, whether its position request or its search
\* request succeeded, was answered not ok, or failed.
C34_OneRequestAndFlagCleared ==
  /\ stockfish.position + stockfish.go <= 1
  /\ (stockfish.position + stockfish.go = 0) => ~stockfish.isThinking

\* C35: when searches overlap on the shared engine, each search that resolves
\* with a bestmove resolves with the line the engine printed for its own go
\* command; every search resolves at most once, and a resolved search has no
\* line listener left.
C35_EachSearchGetsItsOwnBestmove ==
  \A id \in Requests :
     /\ engine.result[id] > 0 => engine.result[id] = id
     /\ engine.resolves[id] <= 1
     /\ engine.result[id] # 0 => id \notin engine.listeners

====
